---- MODULE Spec2Model ----
(***************************************************************************)
(* Model of the targon-jugo services.                                      *)
(*                                                                         *)
(*   - verify_signature (src/epistula.py): the Epistula request check, a   *)
(*     pure function, modelled as an operator over tagged Python values.   *)
(*   - exgest (src/jugo.py): the leased bucket cache in front of the       *)
(*     request table, one process per request, one action per stretch of   *)
(*     code between two store calls.                                       *)
(*   - update_organic_scores (src/intake.py): the endpoint of the intake   *)
(*     service that writes the scored flag of its own table.               *)
(*                                                                         *)
(* The handler steps inside `async with cache_lock` are separate actions:  *)
(* the model lets other requests run between two store calls of the lock   *)
(* holder.  The run in which the holder is never interrupted is one of     *)
(* the schedules of the model.                                             *)
(***************************************************************************)
EXTENDS Integers, Sequences, FiniteSets, TLC

VARIABLES
    DEBUG,          \* jugo.py:23, fixed when the process starts
    request_table,  \* hub table `request`: sequence of rows, index = id
    cache,          \* jugo.py:124, TTLCache with keys "buckets", "bucket_id"
    cache_lock,     \* jugo.py:145, asyncio.Lock: [locked, waiters]
    next_nanoid,    \* source of fresh bucket ids (nanoid.generate)
    pc,             \* per request: position of the exgest handler
    json_data,      \* per request: the categories its body names
    local,          \* per request: bucket_id, records
    response,       \* per request: the HTTP outcome
    materialized,   \* history: every bucket stored in the cache, in order
    hist,           \* history per request: what happened to it
    failed_last,    \* history: the last materialization ended in a store failure
    epoch,          \* history: cycles started, cycles failed and bucket ids
                    \* returned since a cache entry last ran out
    v_in,           \* verify_signature: the arguments of one call
    v_out,          \* verify_signature: its outcome
    organic_request,    \* intake: table `organic_request`, rows [uid, scored]
    intake_response,    \* intake: the outcome of the last request
    intake_request,     \* intake: history, the last request
    targon_stats_db,    \* jugo.py:135, the tables of the stats database
    ingest_request,     \* ingest and ingest_organics: history, the last request
    ingest_response,    \* ingest and ingest_organics: its outcome
    exgestor_DEBUG,     \* exgestor.py:18
    exgestor_cache,     \* exgestor.py:34, TTLCache with key "current_bucket"
    current_bucket,     \* exgestor.py:31, [id, last_id]
    connection,         \* exgestor.py:36, "open" or "closed"
    exgestor_response   \* exgestor: the outcome of the last request

verify_vars == <<v_in, v_out>>
intake_vars == <<organic_request, intake_response, intake_request>>
ingest_vars == <<targon_stats_db, ingest_request, ingest_response>>
exgestor_vars == <<exgestor_DEBUG, exgestor_cache, current_bucket, connection,
                   exgestor_response>>

vars == <<DEBUG, request_table, cache, cache_lock, next_nanoid, pc, json_data, local,
          response, materialized, hist, failed_last, epoch, verify_vars, intake_vars, ingest_vars, exgestor_vars>>

svc_vars == <<DEBUG, request_table, cache, cache_lock, next_nanoid, pc, json_data,
              local, response, materialized, hist, failed_last, epoch>>

-----------------------------------------------------------------------------
(* Bounds of the model *)

MaxCalls == 2       \* exgest requests
MaxRecords == 2     \* rows ever inserted into the request table
ClockStep == 600    \* seconds that pass in one Tick

(* Program constants *)

TTL == 1200
LIMIT == 100
ALLOWED_DELTA_MS == 8000

Calls == 1..MaxCalls
Senders == {"validator1", "validator2"}

Min(a, b) == IF a < b THEN a ELSE b

-----------------------------------------------------------------------------
(* Python values, tagged with their type *)

PyNone == [t |-> "NoneType"]
PyStr(s) == [t |-> "str", v |-> s]
PyInt(n) == [t |-> "int", v |-> n]
PyBytes(s) == [t |-> "bytes", v |-> s]
PyDict(pairs) == [t |-> "dict", v |-> pairs]    \* pairs in insertion order
PyList(items) == [t |-> "list", v |-> items]

isinstance(x, types) == x.t \in types

Returns(value) == [kind |-> "return", value |-> value]
Raises(exc) == [kind |-> "raise", value |-> exc]
NoError == Returns("None")

-----------------------------------------------------------------------------
(* verify_signature, src/epistula.py *)

Digit(d) ==
    CASE d = 0 -> "0" [] d = 1 -> "1" [] d = 2 -> "2" [] d = 3 -> "3"
      [] d = 4 -> "4" [] d = 5 -> "5" [] d = 6 -> "6" [] d = 7 -> "7"
      [] d = 8 -> "8" [] d = 9 -> "9"

RECURSIVE NatToStr(_)
NatToStr(n) == IF n < 10 THEN Digit(n) ELSE NatToStr(n \div 10) \o Digit(n % 10)

\* f"{timestamp}" of a Python int
IntToStr(n) == IF n < 0 THEN "-" \o NatToStr(-n) ELSE NatToStr(n)

\* sha256(...).hexdigest(): an injective function of the bytes hashed
sha256_hexdigest(data) == "h(" \o data \o ")"

Quoted(s) == "\"" \o s \o "\""

RECURSIVE JoinPairs(_)
JoinPairs(ps) ==
    IF ps = <<>> THEN ""
    ELSE Quoted(Head(ps)[1]) \o ":" \o Quoted(Head(ps)[2])
         \o (IF Len(ps) > 1 THEN "," ELSE "") \o JoinPairs(Tail(ps))

RECURSIVE JoinItems(_)
JoinItems(xs) ==
    IF xs = <<>> THEN ""
    ELSE Quoted(Head(xs)) \o (IF Len(xs) > 1 THEN "," ELSE "") \o JoinItems(Tail(xs))

\* json.dumps(body, separators=(',', ':')): keys in the order the dict holds them
json_dumps(body) ==
    IF body.t = "dict" THEN "{" \o JoinPairs(body.v) \o "}"
    ELSE "[" \o JoinItems(body.v) \o "]"

\* The text of a signature header: prefix \o hex(sign(key of signer, msg)).
\* hexok is FALSE when the text after the prefix is not hexadecimal.
SigStr(prefix, hexok, signer, msg) ==
    PyStr([prefix |-> prefix, hexok |-> hexok, signer |-> signer, msg |-> msg])

\* The strings that are ss58 addresses; each stands for its own key pair.
Addresses == {"validator1", "validator2"}

\* A verification that looks at the signer only
KeypairVerifySigner(address, message, sig) == sig.signer = address

\* Keypair.verify of the key pair of `address` on signature bytes
keypair_verify(address, message, sig) == sig.signer = address /\ sig.msg = message

req_hash(body) ==
    IF isinstance(body, {"bytes"}) THEN sha256_hexdigest(body.v)
    ELSE sha256_hexdigest(json_dumps(body))

\* A message that formats an absent signed_for as Python formats None
MessageNoneText(body, timestamp, uuid, signed_for) ==
    req_hash(body) \o "." \o uuid.v \o "." \o IntToStr(timestamp.v) \o "."
        \o (IF signed_for = PyNone THEN "None" ELSE signed_for.v)

\* f"{req_hash}.{uuid}.{timestamp}.{signed_for or ''}"
Message(body, timestamp, uuid, signed_for) ==
    req_hash(body) \o "." \o uuid.v \o "." \o IntToStr(timestamp.v) \o "."
        \o (IF signed_for = PyNone \/ signed_for = PyStr("") THEN "" ELSE signed_for.v)

\* What a sender of the Epistula protocol signs:
\* hash(body) "." nonce "." timestamp "." (signedFor or "")
CanonicalMessage(body, timestamp, nonce, signedFor) ==
    sha256_hexdigest(IF body.t = "bytes" THEN body.v ELSE json_dumps(body))
        \o "." \o nonce \o "." \o IntToStr(timestamp) \o "."
        \o (IF signedFor = PyNone THEN "" ELSE signedFor.v)

StaleReason(timestamp, now) ==
    "Request is too stale: " \o IntToStr(timestamp.v + ALLOWED_DELTA_MS)
        \o " < " \o IntToStr(now.v)

\* A verifier that tests the timestamp before the signature
VerifyTimestampFirst(signature, body, timestamp, uuid, signed_by, now, signed_for) ==
    IF ~isinstance(timestamp, {"int"}) THEN Returns("Invalid Timestamp")
    ELSE IF ~isinstance(signature, {"str"}) THEN Returns("Invalid Signature")
    ELSE IF ~isinstance(signed_by, {"str"}) THEN Returns("Invalid Sender key")
    ELSE IF ~isinstance(uuid, {"str"}) THEN Returns("Invalid uuid")
    ELSE IF ~isinstance(body, {"bytes", "dict", "list"})
        THEN Returns("Body is not of type bytes, dict, or list")
    ELSE IF signed_by.v \notin Addresses THEN Raises("ValueError")
    ELSE IF timestamp.v + ALLOWED_DELTA_MS < now.v
        THEN Returns(StaleReason(timestamp, now))
    ELSE IF signature.v.prefix = "0x" /\ ~signature.v.hexok THEN Raises("ValueError")
    ELSE IF signature.v.prefix # "0x" THEN Raises("TypeError")
    ELSE IF keypair_verify(signed_by.v, Message(body, timestamp, uuid, signed_for),
                           signature.v)
        THEN NoError
    ELSE Returns("Signature Mismatch")

verify_signature(signature, body, timestamp, uuid, signed_by, now, signed_for) ==
    IF ~isinstance(signature, {"str"}) THEN Returns("Invalid Signature")
    ELSE IF ~isinstance(timestamp, {"int"}) THEN Returns("Invalid Timestamp")
    ELSE IF ~isinstance(signed_by, {"str"}) THEN Returns("Invalid Sender key")
    ELSE IF ~isinstance(uuid, {"str"}) THEN Returns("Invalid uuid")
    ELSE IF ~isinstance(body, {"bytes", "dict", "list"})
        THEN Returns("Body is not of type bytes, dict, or list")
    \* keypair = Keypair(ss58_address=signed_by) decodes the address
    ELSE IF signed_by.v \notin Addresses THEN Raises("ValueError")
    ELSE IF timestamp.v + ALLOWED_DELTA_MS < now.v
        THEN Returns(StaleReason(timestamp, now))
    \* bytes.fromhex(signature[2:])
    ELSE IF signature.v.prefix = "0x" /\ ~signature.v.hexok THEN Raises("ValueError")
    \* keypair.verify refuses a str that is no 0x hex-string
    ELSE IF signature.v.prefix # "0x" THEN Raises("TypeError")
    ELSE IF keypair_verify(signed_by.v, Message(body, timestamp, uuid, signed_for),
                           signature.v)
        THEN NoError
    ELSE Returns("Signature Mismatch")

-----------------------------------------------------------------------------
(* The request table and the TTL cache *)

EmptyBuckets == [m \in {} |-> <<>>]

Row(model, json_ok) == [model |-> model, scored |-> FALSE, json_ok |-> json_ok]

\* The members of S from lo to hi, the largest first
RECURSIVE DescRange(_, _, _)
DescRange(S, lo, hi) ==
    IF lo > hi THEN <<>>
    ELSE IF lo = hi THEN (IF lo \in S THEN <<lo>> ELSE <<>>)
    ELSE LET mid == (lo + hi) \div 2
         IN DescRange(S, mid + 1, hi) \o DescRange(S, lo, mid)

\* ORDER BY id DESC
DescSeq(S) ==
    IF S = {} THEN <<>>
    ELSE DescRange(S, 1, CHOOSE x \in S : \A y \in S : y <= x)

Unscored(table) == {i \in DOMAIN table : ~table[i].scored}

\* A SELECT without its WHERE clause
SelectAll(table) ==
    LET ids == DescSeq(DOMAIN table)
    IN SubSeq(ids, 1, Min(Len(ids), LIMIT))

\* A query without LIMIT
SelectUnscoredNoLimit(table) == DescSeq(Unscored(table))

\* SELECT id, ... FROM request WHERE scored = false ORDER BY id DESC LIMIT 100
SelectUnscored(table) ==
    LET ids == DescSeq(Unscored(table))
    IN SubSeq(ids, 1, Min(Len(ids), LIMIT))

SeqToSet(q) == {q[i] : i \in DOMAIN q}

\* An UPDATE that leaves out the newest of the records
MarkScoredButNewest(table, record_ids) ==
    [i \in DOMAIN table |->
        IF i \in SeqToSet(Tail(record_ids)) THEN [table[i] EXCEPT !.scored = TRUE]
        ELSE table[i]]

\* An UPDATE that marks nothing
MarkScoredNothing(table, record_ids) == table

\* UPDATE request SET scored = true WHERE id IN (record_ids)
MarkScored(table, record_ids) ==
    [i \in DOMAIN table |->
        IF i \in SeqToSet(record_ids) THEN [table[i] EXCEPT !.scored = TRUE]
        ELSE table[i]]

\* json.loads of the request and response columns of every record
Decodable(table, records) == \A i \in SeqToSet(records) : table[i].json_ok

\* The records of model m, in the order of q
Filter(q, table, m) == SelectSeq(q, LAMBDA i : table[i].model = m)

\* models[model].append(record), then model_buckets[model] = models[model]
GroupByModel(table, records) ==
    [m \in {table[i].model : i \in SeqToSet(records)} |-> Filter(records, table, m)]

\* The rows written: decoding a row does not depend on its model, one kind of
\* row that json.loads refuses is enough
RowChoices == {Row("modelA", TRUE), Row("modelB", TRUE), Row("modelB", FALSE)}

\* TTLCache: an item is there while timer() < expires
Entry(value) == [value |-> value, remaining |-> TTL]
NoBuckets == [value |-> EmptyBuckets, remaining |-> 0]
NoBucketId == [value |-> 0, remaining |-> 0]
CacheHas(c, key) == c[key].remaining > 0

Elapse(entry, none, seconds) ==
    IF entry.remaining > seconds
    THEN [entry EXCEPT !.remaining = entry.remaining - seconds]
    ELSE none

\* A handler that never looks into the cache
CacheMissAlways(c) == TRUE

\* A handler that takes the cache for empty only when both entries are gone
CacheMissBoth(c) == ~CacheHas(c, "buckets") /\ ~CacheHas(c, "bucket_id")

\* cached_buckets is None or bucket_id is None
CacheMiss(c) == ~CacheHas(c, "buckets") \/ ~CacheHas(c, "bucket_id")

\* A response with an entry, empty if need be, for every name asked
OrganicsOfAll(cached_buckets, names) ==
    [model \in names |->
        IF model \in DOMAIN cached_buckets THEN cached_buckets[model] ELSE <<>>]

\* {model: cached_buckets[model] for model in json_data if model in cached_buckets}
Organics(cached_buckets, names) ==
    [model \in names \cap DOMAIN cached_buckets |-> cached_buckets[model]]

-----------------------------------------------------------------------------
(* Requests *)

\* The time, in ms, at which the requests are signed
SignedAtMs == 1000

\* What request.headers.get gives: a str, or None for a header not sent.  The
\* sender has signed the body it sends for the recipient signed_for.
Headers(signed_by, signed_for) ==
    [timestamp |-> PyStr(IntToStr(SignedAtMs)), uuid |-> PyStr("u1"),
     signed_by |-> PyStr(signed_by),
     signature |-> SigStr("0x", TRUE, signed_by,
                         CanonicalMessage(PyBytes("body"), SignedAtMs, "u1",
                                          signed_for))]

NoLocal == [bucket_id |-> 0, records |-> <<>>]
NoResponse == [status |-> 0, detail |-> "", bucket_id |-> 0, organics |-> EmptyBuckets]

\* History of a request, written by the model only:
\*   signed_by, asked    the sender and the categories of the request
\*   path                "rejected", "hit", "materialized", "store_failed",
\*                       "decode_failed"
\*   waited              it had to wait for cache_lock
\*   waited_at_failure   it was waiting on cache_lock when a materialization
\*                       failed
\*   lease               the number of buckets published when it was answered
\*   fresh_rows          it was served from the cache while the table held
\*                       unscored rows
\*   err                 what the verification of the endpoint said: "None"
\*                       for no error, "" while it was not reached
NoHist == [signed_by |-> "", asked |-> {}, path |-> "none", waited |-> FALSE,
           waited_at_failure |-> FALSE, lease |-> 0, fresh_rows |-> FALSE,
           err |-> ""]

\* exgest never reads the sender once the request is verified: the requests
\* come from the two senders in turn.
SenderOf(c) == IF c % 2 = 1 THEN "validator1" ELSE "validator2"

\* The recipient a request is signed for: the first sender signs for another
\* service, the second for nobody.  No endpoint reads Epistula-Signed-For.
SignedForOf(c) == IF c % 2 = 1 THEN PyStr("serviceX") ELSE PyNone

\* The JSON bodies sent: a list of model names, or text that is not JSON
BodyChoices ==
    {[json_ok |-> TRUE, json_data |-> {"modelA"}],
     [json_ok |-> TRUE, json_data |-> {"modelA", "modelB"}],
     [json_ok |-> FALSE, json_data |-> {}]}

SignedBy(headers) == IF headers.signed_by = PyNone THEN "" ELSE headers.signed_by.v

Ok(bucket_id, organics) ==
    [status |-> 200, detail |-> "", bucket_id |-> bucket_id, organics |-> organics]
HTTPException(status_code, detail) ==
    [status |-> status_code, detail |-> detail, bucket_id |-> 0, organics |-> EmptyBuckets]

-----------------------------------------------------------------------------
(* The exgest service, src/jugo.py *)

NoEpoch == [cycles |-> 0, failures |-> 0, ids |-> {}]

\* The process has started: nothing is cached, the lock is free
InitProcess ==
    /\ DEBUG \in BOOLEAN
    /\ request_table = <<>>
    /\ cache = [buckets |-> NoBuckets, bucket_id |-> NoBucketId]
    /\ cache_lock = [locked |-> FALSE, waiters |-> <<>>]
    /\ next_nanoid = 1
    /\ json_data = [c \in Calls |-> {}]
    /\ local = [c \in Calls |-> NoLocal]
    /\ materialized = <<>>
    /\ failed_last = FALSE
    /\ epoch = NoEpoch

InitService ==
    /\ InitProcess
    /\ pc = [c \in Calls |-> "idle"]
    /\ response = [c \in Calls |-> NoResponse]
    /\ hist = [c \in Calls |-> NoHist]

NoVerify == [signature |-> PyNone, body |-> PyNone, timestamp |-> PyNone,
             uuid |-> PyNone, signed_by |-> PyNone, now |-> PyInt(0),
             signed_for |-> PyNone]

\* The rows of organic_request, written by the hub: none is scored
OrganicRows == <<[uid |-> 1, scored |-> FALSE], [uid |-> 1, scored |-> FALSE]>>

IntakeNoResponse == [status |-> 0, detail |-> ""]

\* History of a request to intake: the endpoint, the sender, what
\* verify_signature said of it ("" while it was not called), whether the
\* allow-list was looked up and whether the sender is in it
IntakeNoRequest ==
    [endpoint |-> "", signed_by |-> "", err |-> "", looked_up |-> FALSE,
     authorized |-> FALSE]

InitIntake ==
    /\ organic_request = OrganicRows
    /\ intake_response = IntakeNoResponse
    /\ intake_request = IntakeNoRequest

\* The stats database of jugo: one hotkey is in the validator table
EmptyStats ==
    [miner_response |-> <<>>, validator_request |-> <<>>,
     validator |-> {"validator1"}, organic_requests |-> <<>>]

\* History of a request to ingest or ingest_organics
IngestNoRequest ==
    [endpoint |-> "", signed_by |-> "", headers |-> <<>>, err |-> "",
     looked_up |-> FALSE, authorized |-> FALSE]

InitIngest ==
    /\ targon_stats_db = EmptyStats
    /\ ingest_request = IngestNoRequest
    /\ ingest_response = IntakeNoResponse

\* exgestor has started: nothing is cached, the connection is open
NoCurrentBucket == [bucket_id |-> 0, records |-> <<>>, remaining |-> 0]

InitExgestorProcess ==
    /\ exgestor_cache = NoCurrentBucket
    /\ current_bucket = [id |-> 0, last_id |-> 0]
    /\ connection = "open"
    /\ exgestor_response = [status |-> 0, detail |-> "", bucket_id |-> 0,
                            records |-> <<>>]

InitOthers ==
    /\ InitIngest
    /\ exgestor_DEBUG = FALSE
    /\ InitExgestorProcess

Init ==
    /\ InitService
    /\ v_in = NoVerify
    /\ v_out = Returns("")
    /\ InitIntake
    /\ InitOthers

\* A row is written to the request table (by the hub, outside this repository)
InsertRecord(row) ==
    /\ Len(request_table) < MaxRecords
    /\ request_table' = Append(request_table, row)
    /\ UNCHANGED <<DEBUG, cache, cache_lock, next_nanoid, pc, json_data, local, response,
                   materialized, hist, failed_last, epoch, verify_vars, intake_vars, ingest_vars, exgestor_vars>>

\* The clock of the TTLCache advances
Tick ==
    /\ CacheHas(cache, "buckets") \/ CacheHas(cache, "bucket_id")
    /\ cache' = [buckets |-> Elapse(cache.buckets, NoBuckets, ClockStep),
                 bucket_id |-> Elapse(cache.bucket_id, NoBucketId, ClockStep)]
    /\ epoch' = IF \E k \in {"buckets", "bucket_id"} :
                      CacheHas(cache, k) /\ ~CacheHas(cache', k)
                THEN NoEpoch ELSE epoch
    /\ UNCHANGED <<DEBUG, request_table, cache_lock, next_nanoid, pc, json_data,
                   local, response, materialized, hist, failed_last, verify_vars, intake_vars, ingest_vars, exgestor_vars>>

\* The clock is between the two expiry times of a bucket: cache["buckets"],
\* written first, has run out, cache["bucket_id"] is about to
TickBetween ==
    /\ CacheHas(cache, "buckets") /\ CacheHas(cache, "bucket_id")
    /\ cache.buckets.remaining <= ClockStep
    /\ cache' = [buckets |-> NoBuckets,
                 bucket_id |-> [cache.bucket_id EXCEPT !.remaining = 1]]
    /\ epoch' = NoEpoch
    /\ UNCHANGED <<DEBUG, request_table, cache_lock, next_nanoid, pc, json_data,
                   local, response, materialized, hist, failed_last, verify_vars,
                   intake_vars, ingest_vars, exgestor_vars>>

\* The request is answered: its locals are gone
Finish(c, resp) ==
    /\ pc' = [pc EXCEPT ![c] = "done"]
    /\ response' = [response EXCEPT ![c] = resp]
    /\ json_data' = [json_data EXCEPT ![c] = {}]
    /\ local' = [local EXCEPT ![c] = NoLocal]

\* An exit that leaves the lock as it is
ReleaseNever(lock) == lock

\* Lock.release, at the end of `async with cache_lock`
Release(lock) == [lock EXCEPT !.locked = FALSE]

\* A handler that takes no notice of the lock
LockFreeAlways(lock) == TRUE

\* Lock.acquire returns at once when the lock is free and nobody waits for it
LockFree(lock) == ~lock.locked /\ lock.waiters = <<>>

\* A generator that gives the same id every time
generateSame(n) == 1

\* "b_" + generate(alphabet, 14): a fresh id
generate(n) == n

\* What the history keeps of a failed materialization of c
NoteFailure(c, path) ==
    [d \in Calls |->
        IF d = c THEN [hist[d] EXCEPT !.path = path]
        ELSE IF pc[d] = "waiting" THEN [hist[d] EXCEPT !.waited_at_failure = TRUE]
        ELSE hist[d]]

\* A failure that leaves the lock held
AbortLocked(c, path, detail) ==
    /\ Finish(c, HTTPException(500, detail))
    /\ hist' = NoteFailure(c, path)
    /\ failed_last' = (path = "store_failed")
    /\ epoch' = [epoch EXCEPT !.failures = @ + 1]
    /\ UNCHANGED <<DEBUG, cache, cache_lock, next_nanoid, materialized, verify_vars, intake_vars, ingest_vars, exgestor_vars>>

\* raise HTTPException(500) inside `async with cache_lock`, after cursor.close()
Abort(c, path, detail) ==
    /\ Finish(c, HTTPException(500, detail))
    /\ cache_lock' = Release(cache_lock)
    /\ hist' = NoteFailure(c, path)
    /\ failed_last' = (path = "store_failed")
    /\ epoch' = [epoch EXCEPT !.failures = @ + 1]
    /\ UNCHANGED <<DEBUG, cache, next_nanoid, materialized, verify_vars, intake_vars, ingest_vars, exgestor_vars>>

\* The body of `async with cache_lock` up to the first store call, entered by
\* c when the lock is its own; `waiters` is the queue without c.
Enter(c, asked, h, waiters) ==
    IF CacheMiss(cache)
    THEN \* bucket_id = "b_" + generate(...), then cursor.execute(SELECT ...)
         /\ cache_lock' = [locked |-> TRUE, waiters |-> waiters]
         /\ pc' = [pc EXCEPT ![c] = "select"]
         /\ json_data' = [json_data EXCEPT ![c] = asked]
         /\ local' = [local EXCEPT ![c].bucket_id = generate(next_nanoid)]
         /\ next_nanoid' = next_nanoid + 1
         /\ hist' = h
         /\ failed_last' = FALSE
         /\ epoch' = [epoch EXCEPT !.cycles = @ + 1]
         /\ UNCHANGED <<DEBUG, request_table, cache, response, materialized,
                        verify_vars, intake_vars, ingest_vars, exgestor_vars>>
    ELSE \* the bucket is served from the cache; the lock is released
         /\ cache_lock' = [locked |-> FALSE, waiters |-> waiters]
         /\ Finish(c, Ok(cache.bucket_id.value,
                         Organics(cache.buckets.value, asked)))
         /\ hist' = [h EXCEPT ![c] =
                       [@ EXCEPT !.path = "hit", !.lease = Len(materialized),
                                 !.fresh_rows = Unscored(request_table) # {}]]
         /\ failed_last' = FALSE
         /\ epoch' = [epoch EXCEPT !.ids = @ \cup {cache.bucket_id.value}]
         /\ UNCHANGED <<DEBUG, request_table, cache, next_nanoid, materialized,
                        verify_vars, intake_vars, ingest_vars, exgestor_vars>>

\* The request is rejected before it reaches the lock
Reject(c, h, status_code, detail) ==
    /\ Finish(c, HTTPException(status_code, detail))
    /\ hist' = [h EXCEPT ![c].path = "rejected"]
    /\ UNCHANGED <<DEBUG, request_table, cache, cache_lock, next_nanoid,
                   materialized, failed_last, epoch, verify_vars, intake_vars, ingest_vars, exgestor_vars>>

\* An endpoint that verifies nothing
VerifyRequestSkipped(r) == NoError

\* The verification of exgest, skipped when DEBUG is set
VerifyRequest(r) ==
    IF DEBUG THEN NoError
    ELSE verify_signature(r.headers.signature, PyBytes("body"),
                          r.headers.timestamp, r.headers.uuid,
                          r.headers.signed_by, PyInt(r.now), PyNone)

\* A request arrives and runs up to `async with cache_lock`
Handle(c, body, now) ==
    /\ pc[c] = "idle"
    /\ \A d \in Calls : d < c => pc[d] # "idle"
    /\ LET headers == Headers(SenderOf(c), SignedForOf(c))
           r == [json_ok |-> body.json_ok, json_data |-> body.json_data,
                 headers |-> headers, now |-> now]
           err == VerifyRequest(r)
           h == [hist EXCEPT ![c] =
                   [@ EXCEPT !.signed_by = SignedBy(headers),
                             !.asked = body.json_data,
                             !.err = IF r.json_ok THEN err.value ELSE ""]]
       IN
       IF ~r.json_ok
       THEN Reject(c, h, 400, "Invalid JSON in request body")
       ELSE IF err.kind = "raise"
       THEN Reject(c, h, 500, err.value)
       ELSE IF err # NoError
       THEN Reject(c, h, 400, err.value)
       ELSE IF LockFree(cache_lock)
       THEN Enter(c, r.json_data, h, <<>>)
       ELSE /\ cache_lock' = [cache_lock EXCEPT !.waiters = Append(@, c)]
            /\ pc' = [pc EXCEPT ![c] = "waiting"]
            /\ json_data' = [json_data EXCEPT ![c] = r.json_data]
            /\ hist' = [h EXCEPT ![c].waited = TRUE]
            /\ UNCHANGED <<DEBUG, request_table, cache, next_nanoid, local,
                           response, materialized, failed_last, epoch, verify_vars, intake_vars, ingest_vars, exgestor_vars>>

\* The first waiter gets the released lock
Wake(c) ==
    /\ pc[c] = "waiting"
    /\ ~cache_lock.locked
    /\ cache_lock.waiters # <<>> /\ Head(cache_lock.waiters) = c
    /\ Enter(c, json_data[c], hist, Tail(cache_lock.waiters))

\* cache["buckets"] = model_buckets; cache["bucket_id"] = bucket_id;
\* cached_buckets = model_buckets; the lock is released and the bucket returned
Publish(c, model_buckets) ==
    /\ cache' = [buckets |-> Entry(model_buckets),
                 bucket_id |-> Entry(local[c].bucket_id)]
    /\ cache_lock' = Release(cache_lock)
    /\ Finish(c, Ok(local[c].bucket_id, Organics(model_buckets, json_data[c])))
    /\ materialized' = Append(materialized,
                              [bucket_id |-> local[c].bucket_id,
                               buckets |-> model_buckets])
    /\ hist' = [hist EXCEPT ![c] =
                  [@ EXCEPT !.path = "materialized",
                            !.lease = Len(materialized) + 1]]
    /\ epoch' = [epoch EXCEPT !.ids = @ \cup {local[c].bucket_id}]
    /\ UNCHANGED <<DEBUG, next_nanoid, failed_last, verify_vars, intake_vars, ingest_vars, exgestor_vars>>

\* cursor.execute(SELECT ...); records = cursor.fetchall(); with no records
\* the handler runs on to the end without another store call
Select(c) ==
    /\ pc[c] = "select"
    /\ UNCHANGED request_table
    /\ LET records == SelectUnscored(request_table) IN
       IF records # <<>>
       THEN /\ pc' = [pc EXCEPT ![c] = "update"]
            /\ local' = [local EXCEPT ![c].records = records]
            /\ UNCHANGED <<DEBUG, cache, cache_lock, next_nanoid, json_data, response,
                           materialized, hist, failed_last, epoch, verify_vars,
                           intake_vars, ingest_vars, exgestor_vars>>
       ELSE Publish(c, EmptyBuckets)

\* A failure that is handed to every request waiting for the lock as well
SelectFailAll(c) ==
    /\ pc[c] = "select"
    /\ LET out == {c} \cup SeqToSet(cache_lock.waiters)
           resp == HTTPException(500, "Internal Server Error: Could not fetch responses.")
       IN /\ pc' = [d \in Calls |-> IF d \in out THEN "done" ELSE pc[d]]
          /\ response' = [d \in Calls |-> IF d \in out THEN resp ELSE response[d]]
          /\ json_data' = [d \in Calls |-> IF d \in out THEN {} ELSE json_data[d]]
          /\ local' = [local EXCEPT ![c] = NoLocal]
    /\ cache_lock' = [locked |-> FALSE, waiters |-> <<>>]
    /\ hist' = NoteFailure(c, "store_failed")
    /\ failed_last' = TRUE
    /\ epoch' = [epoch EXCEPT !.failures = @ + 1]
    /\ UNCHANGED <<DEBUG, request_table, cache, next_nanoid, materialized, verify_vars, intake_vars, ingest_vars, exgestor_vars>>

\* The SELECT raises
SelectFail(c) ==
    /\ pc[c] = "select"
    /\ Abort(c, "store_failed", "Internal Server Error: Could not fetch responses.")
    /\ UNCHANGED request_table

\* cursor.execute(UPDATE ...), then the records are decoded and grouped and
\* the bucket is stored
Update(c) ==
    /\ pc[c] = "update"
    /\ request_table' = MarkScored(request_table, local[c].records)
    /\ IF Decodable(request_table, local[c].records)
       THEN Publish(c, GroupByModel(request_table, local[c].records))
       ELSE Abort(c, "decode_failed",
                  "Internal Server Error: Could not fetch responses.")

\* The UPDATE raises
UpdateFail(c) ==
    /\ pc[c] = "update"
    /\ Abort(c, "store_failed", "Internal Server Error: Could not fetch responses.")
    /\ UNCHANGED request_table

Nows == {SignedAtMs, SignedAtMs + ALLOWED_DELTA_MS + 1}

Next ==
    \/ \E row \in RowChoices : InsertRecord(row)
    \/ Tick
    \/ TickBetween
    \/ \E c \in Calls, b \in BodyChoices, now \in Nows : Handle(c, b, now)
    \/ \E c \in Calls : Wake(c)
    \/ \E c \in Calls : Select(c)
    \/ \E c \in Calls : SelectFail(c)
    \/ \E c \in Calls : Update(c)
    \/ \E c \in Calls : UpdateFail(c)

Spec == Init /\ [][Next]_vars

-----------------------------------------------------------------------------
(* Properties of the bucket cache *)

BucketRecords(buckets) == UNION {SeqToSet(buckets[m]) : m \in DOMAIN buckets}
ResponseRecords(c) == BucketRecords(response[c].organics)
InCycle(c) == pc[c] \in {"select", "update"}
Served(c) == pc[c] = "done" /\ response[c].status = 200
FailedPaths == {"store_failed", "decode_failed"}
\* The bucket a served request was answered from
LeaseOf(c) == materialized[hist[c].lease]

C2_BucketsDisjoint ==
    \A i, j \in DOMAIN materialized :
        i < j => BucketRecords(materialized[i].buckets)
                   \cap BucketRecords(materialized[j].buckets) = {}

\* Two buckets with records were published, one after the other had run out.
C2_Witness ==
    \E i, j \in DOMAIN materialized :
        /\ i < j
        /\ BucketRecords(materialized[i].buckets) # {}
        /\ BucketRecords(materialized[j].buckets) # {}

\* C3: a served request carries the bucket_id of the bucket that was live when
\* it was answered and that bucket's list for each category it asked for; no
\* request is at a store call while a bucket is live.
C3_LiveBucketServedUnchanged ==
    /\ \A c \in Calls : Served(c) =>
          /\ hist[c].lease \in DOMAIN materialized
          /\ response[c].bucket_id = LeaseOf(c).bucket_id
          /\ \A m \in hist[c].asked \cap DOMAIN LeaseOf(c).buckets :
                /\ m \in DOMAIN response[c].organics
                /\ response[c].organics[m] = LeaseOf(c).buckets[m]
    /\ \A c \in Calls : InCycle(c) =>
          ~(CacheHas(cache, "buckets") /\ CacheHas(cache, "bucket_id"))

\* Two requests were served the same bucket, the second from the cache while
\* the table held rows written after the bucket was published.
C3_Witness ==
    \E c, d \in Calls :
        /\ c # d /\ Served(c) /\ Served(d)
        /\ hist[c].path = "materialized" /\ hist[d].path = "hit"
        /\ hist[d].fresh_rows
        /\ hist[c].lease = hist[d].lease
        /\ ResponseRecords(c) # {}
        /\ ResponseRecords(c) = ResponseRecords(d)

\* C4 as stated: no record is returned to requests of two different senders.
C4_OneSenderPerRecord ==
    \A c, d \in Calls :
        Served(c) /\ Served(d) /\ ResponseRecords(c) \cap ResponseRecords(d) # {}
            => hist[c].signed_by = hist[d].signed_by

\* C4 amended: two responses that share a record were served from the same
\* bucket, whoever sent the requests.
C4_SharedRecordSameBucket ==
    \A c, d \in Calls :
        Served(c) /\ Served(d) /\ ResponseRecords(c) \cap ResponseRecords(d) # {}
            => /\ response[c].bucket_id = response[d].bucket_id
               /\ hist[c].lease = hist[d].lease

\* Two senders were returned the same record.
C4_Witness ==
    \E c, d \in Calls :
        /\ Served(c) /\ Served(d)
        /\ hist[c].signed_by # hist[d].signed_by
        /\ ResponseRecords(c) \cap ResponseRecords(d) # {}

\* C6: after a SELECT or UPDATE of a materialization raised, the cache holds no
\* live bucket and the lock is free, so that the next request starts a
\* materialization; the request is answered 500 without a bucket, and the
\* cache only ever holds what a materialization that ran to its end stored.
C6_FailureCachesNothing ==
    /\ failed_last => CacheMiss(cache) /\ ~cache_lock.locked
    /\ \A c \in Calls : hist[c].path \in FailedPaths =>
          /\ pc[c] = "done"
          /\ response[c].status = 500
          /\ response[c].bucket_id = 0 /\ response[c].organics = EmptyBuckets
    /\ Len(materialized) = Cardinality({c \in Calls : hist[c].path = "materialized"})
    /\ CacheHas(cache, "bucket_id") =>
          \E i \in DOMAIN materialized :
              materialized[i].bucket_id = cache.bucket_id.value
    /\ CacheHas(cache, "buckets") =>
          \E i \in DOMAIN materialized :
              materialized[i].buckets = cache.buckets.value

\* The store call of a materialization has just raised: the request has its 500
\* and the rows it was to fetch are still unscored.
C6_Witness ==
    /\ failed_last
    /\ CacheMiss(cache)
    /\ Unscored(request_table) # {}
    /\ \E c \in Calls : hist[c].path = "store_failed" /\ response[c].status = 500

C8_EntryForEveryCategory ==
    \A c \in Calls : Served(c) => DOMAIN response[c].organics = hist[c].asked

\* C8 amended: the response has an entry for a category exactly when the
\* category was asked for and the bucket holds a record of it; the entry lists
\* the bucket's records of that category, newest first, and is never empty.
C8_EntryForCategoriesWithRecords ==
    \A c \in Calls : Served(c) =>
        LET bucket == BucketRecords(LeaseOf(c).buckets)
            organics == response[c].organics
        IN /\ DOMAIN organics \subseteq hist[c].asked
           /\ \A m \in hist[c].asked :
                 m \in DOMAIN organics <=>
                     \E r \in bucket : request_table[r].model = m
           /\ \A m \in DOMAIN organics :
                 /\ organics[m] # <<>>
                 /\ SeqToSet(organics[m]) = {r \in bucket : request_table[r].model = m}
                 /\ \A i, j \in DOMAIN organics[m] :
                       i < j => organics[m][i] > organics[m][j]

\* A request asked for two categories and the bucket had records of one only:
\* the response has no entry for the other.
C8_Witness ==
    \E c \in Calls :
        /\ Served(c)
        /\ hist[c].asked = {"modelA", "modelB"}
        /\ DOMAIN response[c].organics = {"modelA"}
        /\ Len(response[c].organics["modelA"]) >= 2

\* C15 as stated: a request signed for another recipient is rejected and
\* reaches neither the cache nor the store.
C15_SignedForOtherRejected ==
    \A c \in Calls : pc[c] # "idle" /\ SignedForOf(c) # PyNone =>
        /\ pc[c] = "done"
        /\ hist[c].path = "rejected"
        /\ response[c].status = 400

\* C15 amended: unless DEBUG is set, a request signed for another recipient is
\* answered 400 without reaching the lock, the cache or the store; exgest
\* passes no recipient to verify_signature, for which the signature of such a
\* request, fresh and with its timestamp as an int, is a mismatch.  With DEBUG
\* set the request is not verified and is rejected only for a body that is
\* not JSON.
C15_SignedForOtherRejectedUnlessDebug ==
    \A c \in Calls : pc[c] # "idle" /\ SignedForOf(c) # PyNone =>
        LET headers == Headers(SenderOf(c), SignedForOf(c)) IN
        /\ verify_signature(headers.signature, PyBytes("body"), PyInt(SignedAtMs),
                            headers.uuid, headers.signed_by, PyInt(SignedAtMs),
                            PyNone) = Returns("Signature Mismatch")
        /\ ~DEBUG =>
              /\ pc[c] = "done"
              /\ hist[c].path = "rejected"
              /\ response[c].status = 400
              /\ hist[c].asked # {} => response[c].detail # "Invalid JSON in request body"
              /\ ~hist[c].waited
        /\ DEBUG /\ hist[c].path = "rejected" =>
              response[c].detail = "Invalid JSON in request body"

\* A request with a JSON body, signed for another service, was answered 400
\* by a service that verifies.
C15_Witness ==
    \E c \in Calls :
        /\ ~DEBUG /\ SignedForOf(c) # PyNone
        /\ hist[c].asked # {}
        /\ hist[c].path = "rejected"
        /\ response[c].status = 400

\* C19: the records of a materialization are marked while cache_lock is held and
\* before the bucket is stored: a request whose UPDATE is still to come holds
\* the lock and finds no live bucket in the cache, and every record of a bucket
\* that is in the cache, or was ever stored there, is scored in the table.
C19_LiveBucketRecordsScored ==
    /\ \A c \in Calls : pc[c] = "update" =>
          /\ cache_lock.locked
          /\ CacheMiss(cache)
          /\ \E i \in SeqToSet(local[c].records) : ~request_table[i].scored
    /\ CacheHas(cache, "buckets") =>
          \A i \in BucketRecords(cache.buckets.value) : request_table[i].scored
    /\ \A k \in DOMAIN materialized :
          \A i \in BucketRecords(materialized[k].buckets) : request_table[i].scored

\* A bucket with records is live and the table holds a row it does not have.
C19_Witness ==
    /\ CacheHas(cache, "buckets") /\ CacheHas(cache, "bucket_id")
    /\ BucketRecords(cache.buckets.value) # {}
    /\ DOMAIN request_table \ BucketRecords(cache.buckets.value) # {}

-----------------------------------------------------------------------------
(* The scored flags: exgest together with update_organic_scores of the     *)
(* intake service, src/intake.py                                           *)

\* The hotkeys of the validator table
Validators == {"validator1"}

\* request.data: the uids of the score updates; no row has uid 3
ScoreChoices == {<<1>>, <<3>>}

\* An UPDATE that clears the flag of the rows of another uid
ScoreUidOnly(table, uid) ==
    [i \in DOMAIN table |-> [table[i] EXCEPT !.scored = (table[i].uid = uid)]]

\* UPDATE organic_request SET scored=TRUE, verified=$1, wps=$2 WHERE uid=$3
ScoreUid(table, uid) ==
    [i \in DOMAIN table |->
        IF table[i].uid = uid THEN [table[i] EXCEPT !.scored = TRUE] ELSE table[i]]

\* for score in request.data: await conn.execute(UPDATE ...)
RECURSIVE ScoreAll(_, _)
ScoreAll(table, data) ==
    IF data = <<>> THEN table
    ELSE ScoreAll(ScoreUid(table, Head(data)), Tail(data))

\* except Exception as e: raise HTTPException(status_code=500, ...)
IntakeError(cause) ==
    [status |-> 500,
     detail |-> "Internal Server Error: Could not update organic request scores. "
                \o cause]

IntakeOk == [status |-> 200, detail |-> "Organic request scores updated successfully"]

\* POST /organic_requests/score.  err is what verify_signature of the intake
\* package says, ran the number of UPDATEs that ran before one raised
\* (all of them when none did).
update_organic_scores(fields_ok, err, db_ok, signed_by, data, ran) ==
    /\ intake_request' =
          [endpoint |-> "update_organic_scores", signed_by |-> signed_by,
           err |-> IF fields_ok THEN err.value ELSE "",
           looked_up |-> fields_ok /\ err = NoError /\ db_ok,
           authorized |-> signed_by \in Validators]
    /\ IF ~fields_ok
       THEN /\ intake_response' = IntakeError("Nonce or Signed By is missing or invalid")
            /\ UNCHANGED organic_request
       ELSE IF err # NoError
       THEN /\ intake_response' =
                   IntakeError("Signature verification failed: " \o err.value)
            /\ UNCHANGED organic_request
       ELSE IF ~db_ok
       THEN /\ intake_response' = IntakeError("Could not connect to the database.")
            /\ UNCHANGED organic_request
       ELSE IF signed_by \notin Validators
       THEN /\ intake_response' = IntakeError("Unauthorized hotkey")
            /\ UNCHANGED organic_request
       ELSE /\ organic_request' = ScoreAll(organic_request, SubSeq(data, 1, ran))
            /\ intake_response' = IF ran = Len(data) THEN IntakeOk
                                  ELSE IntakeError("UPDATE")
    /\ UNCHANGED <<svc_vars, verify_vars, ingest_vars, exgestor_vars>>

\* The first requests have been answered 400 for a body that is not JSON: two
\* requests are still to come.
Answered == {c \in Calls : c + 2 <= MaxCalls}

InitScored ==
    /\ InitProcess
    /\ pc = [c \in Calls |-> IF c \in Answered THEN "done" ELSE "idle"]
    /\ response = [c \in Calls |->
                     IF c \in Answered
                     THEN HTTPException(400, "Invalid JSON in request body")
                     ELSE NoResponse]
    /\ hist = [c \in Calls |->
                 IF c \in Answered
                 THEN [NoHist EXCEPT !.signed_by = SenderOf(c), !.path = "rejected"]
                 ELSE NoHist]
    /\ v_in = NoVerify
    /\ v_out = Returns("")
    /\ InitIntake
    /\ InitOthers

NextScored ==
    \/ Next
    \/ \E signed_by \in Senders, data \in ScoreChoices :
          update_organic_scores(TRUE, NoError, TRUE, signed_by, data, Len(data))

SpecScored == InitScored /\ [][NextScored]_vars

NewlyScored(old, new) == {i \in DOMAIN old : ~old[i].scored /\ new[i].scored}
NeverCleared(old, new) == \A i \in DOMAIN old : old[i].scored => new[i].scored

\* C5 as stated: a scored flag is never cleared, and the only step that sets one
\* is the UPDATE of a materialization of exgest.
C5_ScoredOnlyByExgest ==
    [][/\ NeverCleared(request_table, request_table')
       /\ NeverCleared(organic_request, organic_request')
       /\ NewlyScored(request_table, request_table') # {}
            \/ NewlyScored(organic_request, organic_request') # {}
          => \E c \in Calls : pc[c] = "update" /\ pc'[c] # "update"]_vars

\* C5 amended: a scored flag is never cleared.  In the request table a row is
\* written unscored, and the flags set in a step are those of the rows that a
\* materialization of exgest had selected unscored and whose UPDATE ran.  In
\* organic_request the flags are set by update_organic_scores, which leaves
\* the request table alone.
C5_ScoredSetOnce ==
    [][/\ NeverCleared(request_table, request_table')
       /\ NeverCleared(organic_request, organic_request')
       /\ \A i \in DOMAIN request_table' \ DOMAIN request_table :
             ~request_table'[i].scored
       /\ \A c \in Calls : pc[c] = "update" /\ pc'[c] # "update" =>
             NewlyScored(request_table, request_table') =
                 IF hist'[c].path = "store_failed" THEN {}
                 ELSE SeqToSet(local[c].records)
       /\ NewlyScored(request_table, request_table') # {} =>
             \E c \in Calls : pc[c] = "update" /\ pc'[c] # "update"
       /\ NewlyScored(organic_request, organic_request') # {} =>
             /\ intake_response'.status \in {200, 500}
             /\ UNCHANGED svc_vars]_vars

\* Both tables hold a scored row: one marked by exgest, one by
\* update_organic_scores.
C5_Witness ==
    /\ \E i \in DOMAIN request_table : request_table[i].scored
    /\ \E c \in Calls : hist[c].path = "materialized" /\ ResponseRecords(c) # {}
    /\ \E i \in DOMAIN organic_request : organic_request[i].scored
    /\ intake_response = IntakeOk

-----------------------------------------------------------------------------
(* ingest and ingest_organics of jugo (src/jugo.py) and get_organic_requests *)
(* of the intake service (src/intake.py): one step per request             *)

MaxIngest == 2      \* requests whose rows the stats tables can take

\* The requests sent to ingest and ingest_organics: a body that is JSON or
\* not, that fits the payload model or not, from either sender, with or
\* without the signature header
IngestRequests ==
    {[json_ok |-> j, payload_ok |-> p, now |-> now,
      headers |-> [Headers(s, PyNone) EXCEPT !.signature =
                     IF signed THEN @ ELSE PyNone]] :
        j \in BOOLEAN, p \in BOOLEAN, now \in Nows, s \in Senders,
        signed \in BOOLEAN}

\* An endpoint that takes every request for verified
VerifyIngestSkipped(r) == NoError

\* err = verify_signature(signature=signature, body=body, timestamp=timestamp,
\*                        uuid=uuid, signed_by=signed_by, now=now)
VerifyIngest(r) ==
    verify_signature(r.headers.signature, PyBytes("body"), r.headers.timestamp,
                     r.headers.uuid, r.headers.signed_by, PyInt(r.now), PyNone)

\* except Exception as e: raise HTTPException(status_code=500, ...)
IngestError(cause) ==
    [status |-> 500,
     detail |-> "Internal Server Error: Could not insert responses/requests. "
                \o cause]

\* An exception that no handler catches
Unhandled == [status |-> 500, detail |-> "Internal Server Error"]

IngestOk == [status |-> 200, detail |-> ""]

\* is_authorized_hotkey(cursor, signed_by)
is_authorized_hotkey(validator, signed_by) == signed_by \in validator

\* The steps of ingest and ingest_organics up to the first INSERT: what is
\* answered when the request does not get there, IngestOk when it does
IngestGate(r) ==
    LET err == VerifyIngest(r) IN
    IF ~r.json_ok THEN Unhandled
    ELSE IF err.kind = "raise" THEN Unhandled
    ELSE IF err # NoError THEN [status |-> 400, detail |-> err.value]
    ELSE IF ~r.payload_ok THEN IngestError("ValidationError")
    ELSE IF SignedBy(r.headers) = ""
            \/ ~is_authorized_hotkey(targon_stats_db.validator, SignedBy(r.headers))
    THEN IngestError("401: Unauthorized hotkey: " \o SignedBy(r.headers))
    ELSE IngestOk

IngestHistory(endpoint, r) ==
    LET err == VerifyIngest(r)
        verified == r.json_ok /\ err = NoError
    IN [endpoint |-> endpoint, signed_by |-> SignedBy(r.headers),
        headers |-> r.headers,
        err |-> IF r.json_ok THEN err.value ELSE "",
        looked_up |-> verified /\ r.payload_ok /\ SignedBy(r.headers) # "",
        authorized |-> SignedBy(r.headers) \in targon_stats_db.validator]

\* An INSERT that raises takes the earlier ones back
IngestInsertsAtomic(db, hotkey, raises_at) ==
    IF raises_at # 0 THEN db
    ELSE [miner_response |-> Append(db.miner_response, hotkey),
          validator_request |-> Append(db.validator_request, hotkey),
          validator |-> db.validator \cup {hotkey},
          organic_requests |-> db.organic_requests]

\* The three INSERTs of ingest on the autocommit connection targon_stats_db:
\* each is committed as it is executed, the ones before the call that raises
\* stay
IngestInserts(db, hotkey, raises_at) ==
    [miner_response |->
         IF raises_at = 1 THEN db.miner_response
         ELSE Append(db.miner_response, hotkey),
     validator_request |->
         IF raises_at \in {1, 2} THEN db.validator_request
         ELSE Append(db.validator_request, hotkey),
     validator |->
         IF raises_at # 0 THEN db.validator
         ELSE db.validator \cup {hotkey},
     organic_requests |-> db.organic_requests]

\* POST /.  raises_at is the store call that raises: 1 the INSERT of the
\* miner responses, 2 that of the validator request, 3 that of the validator
\* row, 0 none.  The connection is in autocommit mode: rollback() undoes
\* nothing.
ingest(r, raises_at) ==
    /\ Len(targon_stats_db.miner_response) < MaxIngest
    /\ ingest_request' = IngestHistory("ingest", r)
    /\ IF IngestGate(r) # IngestOk
       THEN /\ ingest_response' = IngestGate(r)
            /\ UNCHANGED targon_stats_db
       ELSE /\ ingest_response' = IF raises_at = 0 THEN IngestOk
                                  ELSE IngestError("INSERT")
            /\ targon_stats_db' = IngestInserts(targon_stats_db, SignedBy(r.headers), raises_at)
    /\ UNCHANGED <<svc_vars, verify_vars, intake_vars, exgestor_vars>>

\* POST /organics/scores: one INSERT
ingest_organics(r, raises_at) ==
    /\ Len(targon_stats_db.organic_requests) < MaxIngest
    /\ ingest_request' = IngestHistory("ingest_organics", r)
    /\ IF IngestGate(r) # IngestOk
       THEN /\ ingest_response' = IngestGate(r)
            /\ UNCHANGED targon_stats_db
       ELSE /\ ingest_response' = IF raises_at = 0 THEN IngestOk
                                  ELSE IngestError("INSERT")
            /\ targon_stats_db' =
                  [targon_stats_db EXCEPT !.organic_requests =
                      IF raises_at = 1 THEN @ ELSE Append(@, SignedBy(r.headers))]
    /\ UNCHANGED <<svc_vars, verify_vars, intake_vars, exgestor_vars>>

\* What verify_signature of the intake package answers: the module is not in
\* the repository, the answer is an input
IntakeErrChoices == {NoError, Returns("Signature Mismatch")}

IntakeFetchError ==
    [status |-> 500,
     detail |-> "Internal Server Error: Could not fetch organic requests."]

\* GET /organic_requests: connect, look the sender up, verify, SELECT.  Every
\* HTTPException raised inside the try block is caught by `except Exception`.
get_organic_requests(db_ok, signed_by, err, fetch_ok) ==
    /\ intake_request' =
          [endpoint |-> "get_organic_requests", signed_by |-> signed_by,
           err |-> IF db_ok /\ signed_by \in Validators THEN err.value ELSE "",
           looked_up |-> db_ok,
           authorized |-> signed_by \in Validators]
    /\ intake_response' =
          IF ~db_ok THEN IntakeFetchError
          ELSE IF signed_by \notin Validators THEN IntakeFetchError
          ELSE IF err # NoError THEN IntakeFetchError
          ELSE IF ~fetch_ok THEN IntakeFetchError
          ELSE [status |-> 200, detail |-> ""]
    /\ UNCHANGED <<organic_request, svc_vars, verify_vars, ingest_vars, exgestor_vars>>

-----------------------------------------------------------------------------
(* The exgestor service, src/exgestor/exgestor.py: no lock and no await    *)
(* between the cache lookup and the cache write, one step per request      *)

EXGESTOR_TTL == 1200
EXGESTOR_LIMIT == 50

ExgestorOk(bucket_id, records) ==
    [status |-> 200, detail |-> "", bucket_id |-> bucket_id, records |-> records]
ExgestorError(status_code, detail) ==
    [status |-> status_code, detail |-> detail, bucket_id |-> 0, records |-> <<>>]

\* A query without LIMIT
SelectAfterAll(table, last_id) ==
    DescSeq({i \in Unscored(table) : i > last_id})

\* SELECT ... FROM request WHERE id > %s AND scored = false
\* ORDER BY id DESC LIMIT 50
SelectAfter(table, last_id) ==
    LET ids == DescSeq({i \in Unscored(table) : i > last_id})
    IN SubSeq(ids, 1, Min(Len(ids), EXGESTOR_LIMIT))

\* The verification of exgest of exgestor, skipped when DEBUG is set
ExgestorVerify(r) ==
    IF exgestor_DEBUG THEN NoError
    ELSE verify_signature(r.headers.signature, PyBytes("body"),
                          r.headers.timestamp, r.headers.uuid,
                          r.headers.signed_by, PyInt(r.now), PyNone)

\* get_cached_records() with nothing in the cache: a new bucket id, the
\* SELECT, json.loads of every record, the watermark and the cache write;
\* `finally` closes the one connection of the process.  The row ids of a
\* bucket are the records kept of it.
FetchRecords(fetch_ok) ==
    LET bucket_id == current_bucket.id + 1
        records == SelectAfter(request_table, current_bucket.last_id)
    IN /\ connection' = "closed"
       /\ IF connection = "closed"
          THEN \* execute() raises on the closed connection, and close() raises
               \* again in `finally`: that exception leaves the handler
               /\ current_bucket' = [current_bucket EXCEPT !.id = bucket_id]
               /\ exgestor_response' = ExgestorError(500, "Internal Server Error")
               /\ UNCHANGED exgestor_cache
          ELSE IF ~fetch_ok
          THEN /\ current_bucket' = [current_bucket EXCEPT !.id = bucket_id]
               /\ exgestor_response' = ExgestorError(500,
                      "Internal Server Error: Could not fetch responses.")
               /\ UNCHANGED exgestor_cache
          ELSE IF ~Decodable(request_table, records)
          THEN /\ current_bucket' = [current_bucket EXCEPT !.id = bucket_id]
               /\ exgestor_response' = ExgestorError(500,
                      "Internal Server Error: Invalid JSON in response.")
               /\ UNCHANGED exgestor_cache
          ELSE /\ current_bucket' =
                     [id |-> bucket_id,
                      last_id |-> IF records # <<>> THEN records[Len(records)]
                                  ELSE current_bucket.last_id]
               /\ exgestor_cache' = [bucket_id |-> bucket_id, records |-> records,
                                     remaining |-> EXGESTOR_TTL]
               /\ exgestor_response' = ExgestorOk(bucket_id, records)

\* GET /exgest of exgestor
exgestor_exgest(signed_by, now, fetch_ok) ==
    /\ current_bucket.id < MaxCalls
    /\ LET r == [headers |-> Headers(signed_by, PyNone), now |-> now]
           err == ExgestorVerify(r)
       IN IF err.kind = "raise"
          THEN /\ exgestor_response' = ExgestorError(500, err.value)
               /\ UNCHANGED <<exgestor_cache, current_bucket, connection>>
          ELSE IF err # NoError
          THEN /\ exgestor_response' = ExgestorError(400, err.value)
               /\ UNCHANGED <<exgestor_cache, current_bucket, connection>>
          ELSE IF exgestor_cache.remaining > 0
          THEN /\ exgestor_response' = ExgestorOk(exgestor_cache.bucket_id,
                                                  exgestor_cache.records)
               /\ UNCHANGED <<exgestor_cache, current_bucket, connection>>
          ELSE FetchRecords(fetch_ok)
    /\ UNCHANGED <<exgestor_DEBUG, svc_vars, verify_vars, intake_vars, ingest_vars>>

\* The clock of the TTLCache of exgestor advances
ExgestorTick ==
    /\ exgestor_cache.remaining > 0
    /\ exgestor_cache' = Elapse(exgestor_cache, NoCurrentBucket, ClockStep)
    /\ UNCHANGED <<exgestor_DEBUG, current_bucket, connection, exgestor_response,
                   svc_vars, verify_vars, intake_vars, ingest_vars>>

\* The processes started in either configuration, the same for all
InitEndpoints ==
    /\ InitService
    /\ v_in = NoVerify
    /\ v_out = Returns("")
    /\ InitIntake
    /\ InitIngest
    /\ exgestor_DEBUG = DEBUG
    /\ InitExgestorProcess

JugoIdle == \A c \in Calls : pc[c] = "idle"
IngestIdle == ingest_request = IngestNoRequest
ExgestorIdle == exgestor_response = ExgestorError(0, "") /\ current_bucket.id = 0

\* The requests go to exgest of jugo
ToJugo == IngestIdle /\ ExgestorIdle
\* The requests go to ingest and ingest_organics
ToIngest == JugoIdle /\ ExgestorIdle
\* The requests go to exgest of exgestor
ToExgestor == JugoIdle /\ IngestIdle

\* exgest, the two ingest endpoints and exgestor share nothing but the request
\* table: a behaviour follows the requests to one of the three
NextEndpoints ==
    \/ \E row \in RowChoices : InsertRecord(row)
    \/ ToJugo /\ Tick
    \/ ToJugo /\ TickBetween
    \/ ToJugo /\ \E c \in Calls, b \in BodyChoices, now \in Nows : Handle(c, b, now)
    \/ ToJugo /\ \E c \in Calls : Wake(c)
    \/ ToJugo /\ \E c \in Calls : Select(c)
    \/ ToJugo /\ \E c \in Calls : SelectFail(c)
    \/ ToJugo /\ \E c \in Calls : Update(c)
    \/ ToJugo /\ \E c \in Calls : UpdateFail(c)
    \/ ToIngest /\ \E r \in IngestRequests, raises_at \in 0..3 : ingest(r, raises_at)
    \/ ToIngest /\ \E r \in IngestRequests, raises_at \in 0..1 :
                      ingest_organics(r, raises_at)
    \/ ToExgestor /\ \E signed_by \in Senders, now \in Nows, fetch_ok \in BOOLEAN :
                        exgestor_exgest(signed_by, now, fetch_ok)
    \/ ToExgestor /\ ExgestorTick

SpecEndpoints == InitEndpoints /\ [][NextEndpoints]_vars

\* The endpoints that look the sender up in the allow-list
NextAuth ==
    \/ \E r \in IngestRequests, raises_at \in 0..3 : ingest(r, raises_at)
    \/ \E r \in IngestRequests, raises_at \in 0..1 : ingest_organics(r, raises_at)
    \/ \E db_ok \in BOOLEAN, signed_by \in Senders, err \in IntakeErrChoices,
          fetch_ok \in BOOLEAN :
          get_organic_requests(db_ok, signed_by, err, fetch_ok)
    \/ \E fields_ok \in BOOLEAN, err \in IntakeErrChoices, db_ok \in BOOLEAN,
          signed_by \in Senders, data \in ScoreChoices :
          update_organic_scores(fields_ok, err, db_ok, signed_by, data, Len(data))

SpecAuth == Init /\ [][NextAuth]_vars

-----------------------------------------------------------------------------
(* verify_signature on its own: the arguments are drawn in the initial state *)

NowMs == 20000      \* the receiver's clock when the call is made

\* The integers used as timestamps: around the edge of the allowed delta, and
\* one from the future
TimestampInts ==
    {NowMs - ALLOWED_DELTA_MS - 1, NowMs - ALLOWED_DELTA_MS,
     NowMs - ALLOWED_DELTA_MS + 1, NowMs, NowMs + 60000}

\* A timestamp argument: an int, the text of a header (decimal or not), None
TimestampChoices ==
    {PyInt(n) : n \in TimestampInts}
        \cup {PyStr(IntToStr(NowMs - ALLOWED_DELTA_MS)), PyStr("abc"), PyNone}

\* A dict body, the same dict with its keys inserted in the other order
BodyDict == PyDict(<<<<"k2", "x">>, <<"k1", "y">>>>)
BodyDictReordered == PyDict(<<<<"k1", "y">>, <<"k2", "x">>>>)

\* Bodies: bytes, the dicts, the bytes of the compact JSON text of the dict,
\* a list and a str
VerifyBodyChoices ==
    {PyBytes("b1"), PyBytes("b2"), BodyDict, BodyDictReordered,
     PyBytes(json_dumps(BodyDict)), PyList(<<"modelA">>), PyStr("b1")}

UuidChoices == {PyStr("u1"), PyNone}
SignedByChoices == {PyStr(a) : a \in Addresses} \cup {PyStr("not-an-address"), PyNone}
SignedForChoices == {PyNone, PyStr("jugo")}

\* The signature headers a sender can add to what it signed
SignatureChoices(signer, msg) ==
    {SigStr("0x", TRUE, signer, msg), SigStr("", TRUE, signer, msg),
     SigStr("0x", FALSE, signer, msg), PyNone}

\* The calls: a signer signs (body, timestamp, nonce, signedFor); the call
\* carries that signature with arguments that may differ from what was signed.
VerifyCalls ==
    {[signature |-> sig, body |-> body, timestamp |-> timestamp, uuid |-> uuid,
      signed_by |-> signed_by, now |-> PyInt(NowMs), signed_for |-> signed_for] :
        sig \in UNION {SignatureChoices(signer,
                           CanonicalMessage(sbody, sts, "u1", sfor)) :
                         signer \in Addresses,
                         sbody \in {PyBytes("b1"), BodyDict},
                         sts \in {NowMs - ALLOWED_DELTA_MS - 1,
                                  NowMs - ALLOWED_DELTA_MS, NowMs + 60000},
                         sfor \in SignedForChoices},
        body \in VerifyBodyChoices, timestamp \in TimestampChoices,
        uuid \in UuidChoices, signed_by \in SignedByChoices,
        signed_for \in SignedForChoices}

Pending == Returns("")

InitVerify ==
    /\ InitService
    /\ InitIntake
    /\ InitOthers
    /\ ~DEBUG
    /\ v_in \in VerifyCalls
    /\ v_out = Pending

VerifyCall ==
    /\ v_out = Pending
    /\ v_out' = verify_signature(v_in.signature, v_in.body, v_in.timestamp,
                                 v_in.uuid, v_in.signed_by, v_in.now,
                                 v_in.signed_for)
    /\ UNCHANGED <<v_in, svc_vars, intake_vars, ingest_vars, exgestor_vars>>

NextVerify == VerifyCall

SpecVerify == InitVerify /\ [][NextVerify]_vars

\* Every isinstance test of verify_signature passes
TypesOk(v) ==
    /\ isinstance(v.signature, {"str"})
    /\ isinstance(v.timestamp, {"int"})
    /\ isinstance(v.signed_by, {"str"})
    /\ isinstance(v.uuid, {"str"})
    /\ isinstance(v.body, {"bytes", "dict", "list"})

Stale(v) == v.timestamp.v + ALLOWED_DELTA_MS < v.now.v

\* The call carries the 0x-hex signature that its sender, the owner of an
\* address, made over the canonical message of its own arguments
Honest(v) ==
    /\ TypesOk(v)
    /\ v.signed_by.v \in Addresses
    /\ v.signature = SigStr("0x", TRUE, v.signed_by.v,
                            CanonicalMessage(v.body, v.timestamp.v, v.uuid.v,
                                             v.signed_for))

\* C9: when every type check passes, verify_signature returns the stale-request
\* reason exactly when timestamp + 8000 < now, whatever the signature is.
C9_StaleExactlyWhenOlderThanDelta ==
    v_out # Pending /\ TypesOk(v_in) =>
        (v_out = Returns(StaleReason(v_in.timestamp, v_in.now)) <=> Stale(v_in))

\* A stale call whose arguments pass every type check ended in ValueError
\* instead of the stale-request reason.
C9_Witness ==
    /\ TypesOk(v_in)
    /\ Stale(v_in)
    /\ v_out = Raises("ValueError")

\* C10: a call that carries the sender's signature over the canonical message
\* of its arguments, and whose timestamp is at most 8000 ms old, returns no
\* error; the message has an empty last part when signed_for is absent.
C10_HonestFreshCallAccepted ==
    v_out # Pending /\ Honest(v_in)
        /\ v_in.now.v - v_in.timestamp.v <= ALLOWED_DELTA_MS
        => v_out = NoError

\* An honest call without signed_for, exactly 8000 ms old, was accepted.
C10_Witness ==
    /\ Honest(v_in)
    /\ v_in.signed_for = PyNone
    /\ v_in.now.v - v_in.timestamp.v = ALLOWED_DELTA_MS
    /\ v_out = NoError

\* int(x) succeeds: x is an int, or the decimal text of one
Coercible(x) ==
    \/ isinstance(x, {"int"})
    \/ isinstance(x, {"str"}) /\ \E n \in TimestampInts : IntToStr(n) = x.v

\* int(x)
IntOf(x) ==
    IF isinstance(x, {"int"}) THEN x.v
    ELSE CHOOSE n \in TimestampInts : IntToStr(n) = x.v

\* C11: the timestamp check accepts every value that coerces to an integer:
\* a call whose signature is a string gets the invalid-timestamp reason exactly
\* when its timestamp cannot be coerced; the decimal text of a header is not
\* refused.
C11_CoercibleTimestampAccepted ==
    v_out # Pending /\ isinstance(v_in.signature, {"str"}) =>
        (v_out = Returns("Invalid Timestamp") <=> ~Coercible(v_in.timestamp))

\* A fresh call with the sender's signature over its arguments, whose timestamp
\* is the decimal text read from a header, was refused for its timestamp.
C11_Witness ==
    /\ isinstance(v_in.timestamp, {"str"}) /\ Coercible(v_in.timestamp)
    /\ isinstance(v_in.signed_by, {"str"}) /\ v_in.signed_by.v \in Addresses
    /\ isinstance(v_in.uuid, {"str"}) /\ isinstance(v_in.body, {"bytes"})
    /\ IntOf(v_in.timestamp) + ALLOWED_DELTA_MS >= v_in.now.v
    /\ v_in.signature = SigStr("0x", TRUE, v_in.signed_by.v,
                               CanonicalMessage(v_in.body, IntOf(v_in.timestamp),
                                                v_in.uuid.v, v_in.signed_for))
    /\ v_out = Returns("Invalid Timestamp")

\* The call of v_in with another body
VerifyWithBody(b) ==
    verify_signature(v_in.signature, b, v_in.timestamp, v_in.uuid, v_in.signed_by,
                     v_in.now, v_in.signed_for)

BodyTypes == {"bytes", "dict", "list"}

\* The bytes that are hashed for a body
HashedBytes(body) == IF body.t = "bytes" THEN body.v ELSE json_dumps(body)

\* C12 as stated: when the signature verifies for a body, the call with any
\* different body returns the signature-mismatch reason.
C12_AnyOtherBodyMismatches ==
    v_out # Pending /\ isinstance(v_in.body, BodyTypes) =>
        \A b \in VerifyBodyChoices :
            /\ isinstance(b, BodyTypes)
            /\ b # v_in.body
            /\ VerifyWithBody(b) = NoError
            => v_out = Returns("Signature Mismatch")

\* C12 amended: when the signature verifies for a body, the call with a body
\* whose hashed bytes differ returns the signature-mismatch reason, and the
\* call with a body whose hashed bytes are the same returns no error.
C12_OtherBytesMismatch ==
    v_out # Pending /\ isinstance(v_in.body, BodyTypes) =>
        \A b \in VerifyBodyChoices :
            isinstance(b, BodyTypes) /\ VerifyWithBody(b) = NoError =>
                v_out = IF HashedBytes(b) = HashedBytes(v_in.body) THEN NoError
                        ELSE Returns("Signature Mismatch")

\* A call with the body b2 was refused for its signature, which verifies for
\* the body b1.
C12_Witness ==
    /\ v_in.body = PyBytes("b2")
    /\ VerifyWithBody(PyBytes("b1")) = NoError
    /\ v_out = Returns("Signature Mismatch")

\* Two dicts with the same keys and values
SameItems(a, b) == SeqToSet(a.v) = SeqToSet(b.v)

\* C13: the hash of a dict body does not depend on the order of its keys: two
\* dicts with the same keys and values have the same hash, and a call gives
\* the same outcome with either.
C13_HashIgnoresKeyOrder ==
    v_out # Pending /\ isinstance(v_in.body, {"dict"}) =>
        \A b \in VerifyBodyChoices :
            isinstance(b, {"dict"}) /\ SameItems(b, v_in.body) =>
                /\ req_hash(b) = req_hash(v_in.body)
                /\ VerifyWithBody(b) = v_out

\* A call with a dict body was refused for its signature, which verifies for
\* the same dict with its keys in the other order.
C13_Witness ==
    /\ v_in.body = BodyDictReordered
    /\ SameItems(BodyDict, BodyDictReordered)
    /\ VerifyWithBody(BodyDict) = NoError
    /\ v_out = Returns("Signature Mismatch")

\* C14: verify_signature never raises: every call returns no error or a
\* reason string.
C14_NeverRaises ==
    v_out # Pending => v_out.kind = "return"

\* A call whose arguments pass every type check raised: for a sender that is
\* no address, for a signature that is not hexadecimal, or for one without
\* the 0x prefix.
C14_Witness ==
    /\ TypesOk(v_in)
    /\ v_out.kind = "raise"

\* The reason of the first type check that fails, in the order signature,
\* timestamp, sender, nonce, body
FirstTypeFailure(v) ==
    IF ~isinstance(v.signature, {"str"}) THEN "Invalid Signature"
    ELSE IF ~isinstance(v.timestamp, {"int"}) THEN "Invalid Timestamp"
    ELSE IF ~isinstance(v.signed_by, {"str"}) THEN "Invalid Sender key"
    ELSE IF ~isinstance(v.uuid, {"str"}) THEN "Invalid uuid"
    ELSE "Body is not of type bytes, dict, or list"

TypeReasons ==
    {"Invalid Signature", "Invalid Timestamp", "Invalid Sender key", "Invalid uuid",
     "Body is not of type bytes, dict, or list"}

\* C18: a call that fails a type check returns the reason of the first check
\* that fails, in the order signature, timestamp, sender, nonce, body, and
\* nothing else happens to it (no stale reason, no mismatch, no exception of
\* the key decoding); a call that passes them all gets none of the five
\* reasons; the five reasons, the stale reason and the mismatch reason are
\* seven different strings.
C18_TypeChecksInOrder ==
    v_out # Pending =>
        /\ ~TypesOk(v_in) => v_out = Returns(FirstTypeFailure(v_in))
        /\ TypesOk(v_in) =>
              /\ v_out.kind = "return" => v_out.value \notin TypeReasons
              /\ Cardinality(TypeReasons \cup {StaleReason(v_in.timestamp, v_in.now),
                                               "Signature Mismatch"}) = 7

\* A call without signature and without timestamp got the signature reason,
\* though its sender is no address.
C18_Witness ==
    /\ v_in.signature = PyNone
    /\ v_in.timestamp = PyNone
    /\ v_in.signed_by = PyStr("not-an-address")
    /\ v_out = Returns("Invalid Signature")

-----------------------------------------------------------------------------
(* Verification in front of the endpoints *)

HeadersOf(c) == Headers(SenderOf(c), SignedForOf(c))

\* verify_signature returns no error for a request with these headers
Verified(headers) ==
    \E now \in Nows :
        verify_signature(headers.signature, PyBytes("body"), headers.timestamp,
                         headers.uuid, headers.signed_by, PyInt(now), PyNone)
          = NoError

IsReason(err) == err \notin {"", "None"}

\* The request of c got to `async with cache_lock`
ReachedLock(c) ==
    \/ pc[c] \in {"waiting", "select", "update"}
    \/ pc[c] = "done" /\ hist[c].path # "rejected"

\* The request to ingest or ingest_organics got to the allow-list or to an INSERT
IngestReached == ingest_request.looked_up \/ targon_stats_db # EmptyStats

\* A request to exgestor got to the cache
ExgestorReached == current_bucket.id > 0 \/ exgestor_response.status = 200

\* C16 as stated: in every configuration, a request reaches the lock, a
\* materialization, an UPDATE or an INSERT only after verify_signature returned
\* no error for it.
C16_VerifiedBeforeAnyEffect ==
    /\ \A c \in Calls : ReachedLock(c) => Verified(HeadersOf(c))
    /\ IngestReached => Verified(ingest_request.headers)
    /\ ExgestorReached => \E s \in Senders : Verified(Headers(s, PyNone))

\* What the answer to a request whose verification returned an error is
RejectedWithReason ==
    /\ \A c \in Calls :
          IsReason(hist[c].err) =>
             /\ pc[c] = "done" /\ hist[c].path = "rejected" /\ ~hist[c].waited
             /\ response[c] = HTTPException(400, hist[c].err)
    /\ IsReason(ingest_request.err) =>
          ingest_response = [status |-> 400, detail |-> ingest_request.err]

\* C16, amended: exgest of jugo and of exgestor skip the verification when the
\* process runs with DEBUG set, ingest and ingest_organics never do.  Without
\* DEBUG a request reaches the lock, the cache or the store only after
\* verify_signature returned no error for it; a request whose verification
\* returns an error is answered 400 with the reason, and the step that answers
\* it leaves the caches, the lock and the tables as they were.
C16_VerifiedBeforeAnyEffectUnlessDebug ==
    [][/\ \A c \in Calls : ReachedLock(c)' => DEBUG \/ Verified(HeadersOf(c))
       /\ IngestReached' => Verified(ingest_request'.headers)
       /\ ExgestorReached' =>
             exgestor_DEBUG \/ \E s \in Senders : Verified(Headers(s, PyNone))
       /\ RejectedWithReason'
       /\ (\E c \in Calls : pc[c] = "idle" /\ IsReason(hist'[c].err))
             => UNCHANGED <<request_table, cache, cache_lock, materialized>>
       /\ ingest_request' # ingest_request /\ IsReason(ingest_request'.err)
             => UNCHANGED targon_stats_db
       /\ exgestor_response' # exgestor_response /\ exgestor_response'.status = 400
             => UNCHANGED <<request_table, exgestor_cache, current_bucket,
                            connection>>]_vars

\* Without DEBUG a request was rejected with the verifier's reason while the
\* table held unscored rows: nothing was cached, locked or marked
C16_Witness ==
    /\ ~DEBUG
    /\ \E c \in Calls :
          /\ pc[c] = "done" /\ IsReason(hist[c].err)
          /\ response[c] = HTTPException(400, hist[c].err)
    /\ Unscored(request_table) # {}
    /\ materialized = <<>> /\ ~cache_lock.locked /\ CacheMiss(cache)

-----------------------------------------------------------------------------
(* The answers to authentication failures *)

Is4xx(status) == status \in 400..499

\* C17: a request whose verification fails is answered 400 with the reason of
\* the verifier, and a request from a sender that the allow-list lookup does
\* not find is answered with a 4xx outcome (401), never with a 5xx.
C17_AuthFailuresAre4xx ==
    /\ IsReason(ingest_request.err) =>
          ingest_response = [status |-> 400, detail |-> ingest_request.err]
    /\ ingest_request.looked_up /\ ~ingest_request.authorized =>
          ingest_response.status = 401
    /\ IsReason(intake_request.err) => intake_response.status = 400
    /\ intake_request.looked_up /\ ~intake_request.authorized =>
          Is4xx(intake_response.status)

\* get_organic_requests has looked the sender up, has not found it, and has
\* answered 500
C17_Witness ==
    /\ intake_request.endpoint = "get_organic_requests"
    /\ intake_request.looked_up /\ ~intake_request.authorized
    /\ intake_response = IntakeFetchError

-----------------------------------------------------------------------------
(* The page size: exgest of jugo and of exgestor over a table that holds    *)
(* about a page of unscored rows                                            *)

PageExtra == 1      \* rows above a full page

\* The numbers of unscored rows in the table at the start: more than a page of
\* exgestor, more than a page of jugo
PageSizes == {EXGESTOR_LIMIT + PageExtra, LIMIT + PageExtra}

\* A table with n unscored rows of two models, and one row that is scored
StockedTable(n) ==
    [i \in 1..(n + 1) |->
        [model |-> IF i % 2 = 0 THEN "modelA" ELSE "modelB",
         scored |-> i = 2, json_ok |-> TRUE]]

InitPage ==
    /\ DEBUG \in BOOLEAN
    /\ request_table \in {StockedTable(n) : n \in PageSizes}
    /\ cache = [buckets |-> NoBuckets, bucket_id |-> NoBucketId]
    /\ cache_lock = [locked |-> FALSE, waiters |-> <<>>]
    /\ next_nanoid = 1
    /\ json_data = [c \in Calls |-> {}]
    /\ local = [c \in Calls |-> NoLocal]
    /\ materialized = <<>>
    /\ failed_last = FALSE
    /\ epoch = NoEpoch
    /\ pc = [c \in Calls |-> "idle"]
    /\ response = [c \in Calls |-> NoResponse]
    /\ hist = [c \in Calls |-> NoHist]
    /\ v_in = NoVerify
    /\ v_out = Returns("")
    /\ InitIntake
    /\ InitIngest
    /\ exgestor_DEBUG = DEBUG
    /\ InitExgestorProcess

\* The two services read the same table; no row is written to it meanwhile
NextPage ==
    \/ Tick
    \/ TickBetween
    \/ \E c \in Calls, b \in BodyChoices, now \in Nows : Handle(c, b, now)
    \/ \E c \in Calls : Wake(c)
    \/ \E c \in Calls : Select(c)
    \/ \E c \in Calls : SelectFail(c)
    \/ \E c \in Calls : Update(c)
    \/ \E c \in Calls : UpdateFail(c)
    \/ \E signed_by \in Senders, now \in Nows, fetch_ok \in BOOLEAN :
          exgestor_exgest(signed_by, now, fetch_ok)
    \/ ExgestorTick

SpecPage == InitPage /\ [][NextPage]_vars

RECURSIVE TotalOver(_, _)
TotalOver(buckets, models) ==
    IF models = {} THEN 0
    ELSE LET m == CHOOSE x \in models : TRUE
         IN Len(buckets[m]) + TotalOver(buckets, models \ {m})

\* The number of records of a bucket, over all its categories
Total(buckets) == TotalOver(buckets, DOMAIN buckets)

\* C20: a materialized bucket holds at most the page size of records in total
\* over all its categories, 100 in exgest of jugo and 50 in exgestor, and each
\* of them was unscored in the table when the SELECT took it.
C20_BucketWithinPage ==
    [][/\ \A c \in Calls :
            pc[c] = "select" /\ pc'[c] = "update" =>
               /\ Len(local'[c].records) <= LIMIT
               /\ SeqToSet(local'[c].records) \subseteq Unscored(request_table)
       /\ Len(materialized') > Len(materialized) =>
            LET bucket == materialized'[Len(materialized')].buckets IN
            /\ Total(bucket) <= LIMIT
            /\ \E c \in Calls :
                  /\ InCycle(c)
                  /\ BucketRecords(bucket) = SeqToSet(local[c].records)
                  /\ Total(bucket) = Len(local[c].records)
       /\ exgestor_cache'.bucket_id # exgestor_cache.bucket_id
             /\ exgestor_cache'.remaining > 0 =>
            /\ Len(exgestor_cache'.records) <= EXGESTOR_LIMIT
            /\ SeqToSet(exgestor_cache'.records) \subseteq Unscored(request_table)]_vars

\* Both services have cut a bucket at their page size: rows were left over
C20_Witness ==
    /\ \E k \in DOMAIN materialized :
          /\ Total(materialized[k].buckets) = LIMIT
          /\ Cardinality(DOMAIN materialized[k].buckets) = 2
    /\ Unscored(request_table) # {}
    /\ exgestor_cache.remaining > 0
    /\ Len(exgestor_cache.records) = EXGESTOR_LIMIT

-----------------------------------------------------------------------------
(* The ids of the buckets *)

BucketIds == {materialized[k].bucket_id : k \in DOMAIN materialized}

\* C21: a bucket in the cache is not changed while it is there; the bucket that
\* a materialization stores goes under the id generated in that
\* materialization, an id that no earlier bucket had; a response carries the
\* id and the records of one and the same materialization.
C21_FreshIdPerBucket ==
    [][/\ CacheHas(cache, "bucket_id") /\ CacheHas(cache', "buckets")
          /\ cache'.bucket_id.value = cache.bucket_id.value
             => cache'.buckets.value = cache.buckets.value
       /\ Len(materialized') > Len(materialized) =>
             LET new == materialized'[Len(materialized')] IN
             /\ new.bucket_id \notin BucketIds
             /\ \E c \in Calls :
                   /\ InCycle(c) /\ local[c].bucket_id = new.bucket_id
                   /\ BucketRecords(new.buckets) = SeqToSet(local[c].records)
                         \/ pc[c] = "select"
                   /\ response'[c].bucket_id = new.bucket_id
             /\ cache'.bucket_id.value = new.bucket_id
             /\ cache'.buckets.value = new.buckets
       /\ \A c \in Calls : Served(c)' /\ ~Served(c) =>
             \E k \in DOMAIN materialized' :
                /\ response'[c].bucket_id = materialized'[k].bucket_id
                /\ response'[c].organics =
                      Organics(materialized'[k].buckets, hist'[c].asked)
                /\ \A j \in DOMAIN materialized' :
                      j # k => materialized'[j].bucket_id # response'[c].bucket_id]_vars

\* Two materializations have each published records, under two ids, and each
\* request was answered with the id of its own
C21_Witness ==
    /\ Len(materialized) = 2
    /\ \A k \in DOMAIN materialized : BucketRecords(materialized[k].buckets) # {}
    /\ \E c, d \in Calls :
          /\ Served(c) /\ hist[c].path = "materialized"
          /\ Served(d) /\ hist[d].path = "materialized"
          /\ response[c].bucket_id = LeaseOf(c).bucket_id
          /\ response[d].bucket_id = LeaseOf(d).bucket_id
          /\ response[c].bucket_id # response[d].bucket_id

-----------------------------------------------------------------------------
(* The states of the cache *)

Live == CacheHas(cache, "buckets") /\ CacheHas(cache, "bucket_id")
Materializing == \E c \in Calls : InCycle(c)
Empty == ~Live /\ ~Materializing

\* The request of c passes `async with cache_lock` in this step
TakesLock(c) ==
    /\ pc[c] \in {"idle", "waiting"}
    /\ \/ pc'[c] \in {"select", "update"}
       \/ pc'[c] = "done" /\ hist'[c].path # "rejected"

\* C22: the cache starts Empty.  A Live bucket is served, without a store call,
\* to every request that takes the lock, and stops being Live only when its
\* TTL has elapsed; the store is queried only from Empty, and a request that
\* takes the lock while the cache is Empty starts a materialization, which
\* ends Live or Empty.  A cache that holds one of the two entries only is
\* Empty.
C22_CacheStateMachine ==
    /\ Empty
    /\ [][/\ Live => ~Materializing
          /\ Live /\ ~Live' =>
                /\ cache.buckets.remaining <= ClockStep
                /\ UNCHANGED <<pc, request_table, response>>
          /\ Empty => ~Live'
          /\ ~Live /\ Live' => Materializing /\ ~Materializing'
          /\ Materializing' /\ ~Materializing => Empty
          /\ \A c \in Calls : TakesLock(c) =>
                IF Live
                THEN /\ pc'[c] = "done"
                     /\ response'[c] = Ok(cache.bucket_id.value,
                                          Organics(cache.buckets.value,
                                                   hist'[c].asked))
                     /\ UNCHANGED <<cache, request_table>>
                ELSE /\ pc'[c] = "select"
                     /\ local'[c].bucket_id \notin BucketIds]_vars

\* A request is materializing while the id of the last bucket is still in the
\* cache, its records having run out
C22_Witness ==
    /\ ~CacheHas(cache, "buckets") /\ CacheHas(cache, "bucket_id")
    /\ \E c \in Calls : pc[c] = "select" /\ local[c].bucket_id # cache.bucket_id.value
    /\ Len(materialized) = 1

-----------------------------------------------------------------------------
(* Cancellation of a request that waits for cache_lock *)

\* The task of a request is cancelled, nothing is answered
Cancelled(c) ==
    /\ pc[c] = "waiting"
    /\ Finish(c, NoResponse)
    /\ hist' = [hist EXCEPT ![c].path = "cancelled"]
    /\ UNCHANGED <<DEBUG, request_table, cache, next_nanoid, materialized,
                   failed_last, epoch, verify_vars, intake_vars, ingest_vars,
                   exgestor_vars>>

\* A lock that keeps the place of a cancelled waiter in its queue
CancelKeepsPlace(c) ==
    /\ Cancelled(c)
    /\ UNCHANGED cache_lock

\* The task of c is cancelled inside `async with cache_lock`, in
\* Lock.acquire(): the future of c leaves the queue of the lock; when the lock
\* is free the next waiter is woken
Cancel(c) ==
    /\ Cancelled(c)
    /\ cache_lock' = [cache_lock EXCEPT
                        !.waiters = SelectSeq(@, LAMBDA d : d # c)]

NextCancel ==
    \/ Next
    \/ \E c \in Calls : Cancel(c)

SpecCancel == Init /\ [][NextCancel]_vars

-----------------------------------------------------------------------------
(* The watermark of exgestor *)

\* exgestor stores a bucket in this step
ExgestorPublishes ==
    /\ exgestor_cache'.bucket_id # exgestor_cache.bucket_id
    /\ exgestor_cache'.remaining > 0

\* C24: a materialization of exgestor that fetched records leaves last_id at
\* or above the id of every record it fetched, so that none of them satisfies
\* id > last_id afterwards; last_id never decreases.
C24_WatermarkPastFetched ==
    [][/\ ExgestorPublishes =>
             \A i \in SeqToSet(exgestor_cache'.records) :
                ~(i > current_bucket'.last_id)
       /\ current_bucket'.last_id >= current_bucket.last_id]_vars

\* exgestor holds a bucket of a full page, and all of its records but the
\* oldest are above the watermark
C24_Witness ==
    /\ exgestor_cache.remaining > 0
    /\ Len(exgestor_cache.records) = EXGESTOR_LIMIT
    /\ current_bucket.last_id = exgestor_cache.records[Len(exgestor_cache.records)]
    /\ SeqToSet(exgestor_cache.records)
          \cap SeqToSet(SelectAfter(request_table, current_bucket.last_id)) # {}
    /\ connection = "closed"

-----------------------------------------------------------------------------
(* The order of verification and allow-list lookup *)

\* C25: the allow-list is looked up only for a request for which
\* verify_signature has returned no error.
C25_LookupAfterVerification ==
    /\ ingest_request.looked_up => ingest_request.err = NoError.value
    /\ intake_request.looked_up => intake_request.err = NoError.value

\* get_organic_requests has looked the sender up, has found it, and the
\* verification made after that has returned an error
C25_Witness ==
    /\ intake_request.endpoint = "get_organic_requests"
    /\ intake_request.looked_up /\ intake_request.authorized
    /\ IsReason(intake_request.err)

-----------------------------------------------------------------------------
(* Marking and publishing *)

Delivered == UNION {BucketRecords(materialized[k].buckets) : k \in DOMAIN materialized}

\* C26: every record that exgest has marked scored is in the bucket that the
\* materialization which marked it has stored; no record is marked by a
\* materialization that ended without a bucket.
C26_MarkedRecordsPublished ==
    \A i \in DOMAIN request_table :
        request_table[i].scored =>
           \/ i \in Delivered
           \/ \E c \in Calls : InCycle(c) /\ i \in SeqToSet(local[c].records)

\* A materialization has marked its records, has failed to decode one of them
\* and was answered 500: the records are scored, in no bucket, and the cache is
\* empty
C26_Witness ==
    \E c \in Calls :
        /\ pc[c] = "done" /\ hist[c].path = "decode_failed"
        /\ response[c].status = 500
        /\ \E i \in DOMAIN request_table :
              request_table[i].scored /\ request_table[i].json_ok /\ i \notin Delivered
        /\ ~cache_lock.locked /\ CacheMiss(cache)

-----------------------------------------------------------------------------
(* The lease of a bucket without records *)

\* exgest of jugo: a materialization that finds no unscored record stores a
\* bucket without records under a new id for the whole TTL; a request that
\* takes the lock during the lease is served that bucket and the table is not
\* touched; the SELECT of a materialization takes the unscored rows up to the
\* page size, those inserted during the last lease included
JugoEmptyLease ==
    /\ \A c \in Calls :
          pc[c] = "select" /\ Unscored(request_table) = {} /\ Served(c)' =>
             /\ cache' = [buckets |-> Entry(EmptyBuckets),
                          bucket_id |-> Entry(local[c].bucket_id)]
             /\ local[c].bucket_id \notin BucketIds
             /\ response'[c] = Ok(local[c].bucket_id, EmptyBuckets)
    /\ \A c \in Calls :
          TakesLock(c) /\ Live =>
             /\ response'[c] = Ok(cache.bucket_id.value,
                                  Organics(cache.buckets.value, hist'[c].asked))
             /\ UNCHANGED <<cache, request_table>>
    /\ \A c \in Calls :
          pc[c] = "select" /\ pc'[c] = "update" =>
             /\ ~Live
             /\ local'[c].records = SelectUnscored(request_table)

\* exgest of exgestor starts a materialization in this step
ExgestorFetches == current_bucket'.id # current_bucket.id

StoreErrors ==
    {"Internal Server Error: Could not fetch responses.",
     "Internal Server Error: Invalid JSON in response."}

\* exgest of exgestor: the same, with the cache of exgestor; a materialization
\* in which the store answers ends with a bucket of the rows above the
\* watermark
ExgestorEmptyLease ==
    /\ exgestor_cache.remaining > 0 /\ exgestor_response' # exgestor_response
          /\ exgestor_response'.status = 200 =>
             /\ exgestor_response' = ExgestorOk(exgestor_cache.bucket_id,
                                                exgestor_cache.records)
             /\ UNCHANGED <<exgestor_cache, request_table, current_bucket>>
    /\ ExgestorFetches => exgestor_cache.remaining = 0
    /\ ExgestorFetches /\ exgestor_response'.detail \notin StoreErrors =>
          /\ exgestor_response' =
                ExgestorOk(current_bucket'.id,
                           SelectAfter(request_table, current_bucket.last_id))
          /\ exgestor_cache' =
                [bucket_id |-> current_bucket'.id,
                 records |-> SelectAfter(request_table, current_bucket.last_id),
                 remaining |-> EXGESTOR_TTL]

\* C27: a materialization that finds no unscored record publishes a bucket
\* without records that is live for the whole TTL; the requests of that lease
\* get it, without a query; the rows inserted meanwhile are delivered by the
\* materialization that follows the expiry.  In jugo and in exgestor.
C27_EmptyBucketLease == [][JugoEmptyLease /\ ExgestorEmptyLease]_vars

\* exgestor has published a bucket without records; rows were inserted; the
\* lease has run out, and the request that came then got an error
C27_Witness ==
    /\ current_bucket = [id |-> 2, last_id |-> 0]
    /\ exgestor_cache = NoCurrentBucket
    /\ Unscored(request_table) # {} /\ Decodable(request_table, DescSeq(DOMAIN request_table))
    /\ exgestor_response = ExgestorError(500, "Internal Server Error")

-----------------------------------------------------------------------------
(* Progress.  The event loop runs every task that can run: the first waiter *)
(* gets a released lock, and a store call returns or raises.                *)

Scheduling ==
    \A c \in Calls :
        /\ WF_vars(Wake(c))
        /\ WF_vars(Select(c) \/ SelectFail(c))
        /\ WF_vars(Update(c) \/ UpdateFail(c))

\* The service starts over a table that the hub has written before: no row,
\* or one row of either kind
InitLock ==
    /\ DEBUG \in BOOLEAN
    /\ request_table \in {<<>>} \cup {<<row>> : row \in RowChoices}
    /\ cache = [buckets |-> NoBuckets, bucket_id |-> NoBucketId]
    /\ cache_lock = [locked |-> FALSE, waiters |-> <<>>]
    /\ next_nanoid = 1
    /\ json_data = [c \in Calls |-> {}]
    /\ local = [c \in Calls |-> NoLocal]
    /\ materialized = <<>>
    /\ failed_last = FALSE
    /\ epoch = NoEpoch
    /\ pc = [c \in Calls |-> "idle"]
    /\ response = [c \in Calls |-> NoResponse]
    /\ hist = [c \in Calls |-> NoHist]
    /\ v_in = NoVerify
    /\ v_out = Returns("")
    /\ InitIntake
    /\ InitOthers

\* The requests to exgest alone: no row is written meanwhile
NextLock ==
    \/ Tick
    \/ TickBetween
    \/ \E c \in Calls, b \in BodyChoices, now \in Nows : Handle(c, b, now)
    \/ \E c \in Calls : Wake(c)
    \/ \E c \in Calls : Select(c)
    \/ \E c \in Calls : SelectFail(c)
    \/ \E c \in Calls : Update(c)
    \/ \E c \in Calls : UpdateFail(c)

SpecLock == InitLock /\ [][NextLock]_vars

SpecFair == InitLock /\ [][NextLock]_vars /\ Scheduling

\* The validators keep calling exgest, and the time passes
KeepsCalling ==
    /\ WF_vars(\E c \in Calls, b \in BodyChoices, now \in Nows : Handle(c, b, now))
    /\ WF_vars(Tick \/ TickBetween)

SpecCalled == Init /\ [][Next]_vars /\ Scheduling /\ KeepsCalling

\* A store call of exgest has raised
StoreFailed == \E c \in Calls : hist[c].path = "store_failed"

\* The last of the requests is answered
OutOfCalls == \A c \in Calls : pc[c] = "done"

\* C28: a record that is unscored is in a bucket materialized later, so long as
\* exgest is called after every expiry and no store call fails, whatever is
\* inserted meanwhile.  (Of the requests there are MaxCalls: a record still
\* unscored when the last is answered waits for one more.)
C28_UnscoredEventuallyDelivered ==
    \A i \in 1..MaxRecords :
        [](i \in Unscored(request_table) =>
              <>(\/ i \in Delivered
                 \/ StoreFailed
                 \/ OutOfCalls /\ i \in Unscored(request_table)))

\* A record that was unscored is in no bucket and never will be: it is marked
\* scored, the materialization that marked it has ended without a bucket, and
\* a later materialization, with no store failure, has published its bucket
\* without it
C28_Witness ==
    \E c, d \in Calls :
        /\ pc[c] = "done" /\ hist[c].path = "decode_failed"
        /\ pc[d] = "done" /\ hist[d].path = "materialized"
        /\ hist[d].lease = Len(materialized)
        /\ ~StoreFailed
        /\ \E i \in DOMAIN request_table :
              /\ request_table[i].scored /\ request_table[i].json_ok
              /\ i \notin Delivered

-----------------------------------------------------------------------------
(* The lock *)

InSection == {c \in Calls : pc[c] \in {"select", "update"}}

\* The request has passed the verification and is not answered yet
Pending_exgest(c) == pc[c] \in {"waiting", "select", "update"}

\* C29: at most one request is inside `async with cache_lock`, and the lock is
\* held exactly while one is: it is free again after a bucket served from the
\* cache, after a materialization and after a store error answered 500.  With
\* the scheduling of the event loop every request that has passed the
\* verification is answered, with a bucket or with an error, whatever became
\* of the materializations before it.
C29_LockReleasedAndCallsReturn ==
    /\ [](/\ Cardinality(InSection) <= 1
          /\ cache_lock.locked <=> InSection # {}
          /\ \A c \in Calls : pc[c] = "waiting" <=> c \in SeqToSet(cache_lock.waiters))
    /\ \A c \in Calls :
          [](Pending_exgest(c) =>
                <>(/\ pc[c] = "done"
                   /\ \/ response[c].status = 200 /\ response[c].bucket_id # 0
                      \/ response[c].status = 500))

\* A request waited for the lock while a materialization failed with a store
\* error; it then got the lock and was answered with a bucket
C29_Witness ==
    \E c, d \in Calls :
        /\ hist[d].path = "store_failed" /\ response[d].status = 500
        /\ hist[c].waited_at_failure
        /\ pc[c] = "done" /\ response[c].status = 200
        /\ ~cache_lock.locked /\ cache_lock.waiters = <<>>

-----------------------------------------------------------------------------
(* The store section of ingest: src/jugo.py from `cursor =                  *)
(* targon_stats_db.cursor()` to the end of the handler                      *)

\* The requests for which verify_signature has returned None
VerifiedRequests == {r \in IngestRequests : r.json_ok /\ r.headers.signature # PyNone}

\* The try block of ingest, entered by such a request: the payload model, the
\* allow-list, the three INSERTs, commit; `except Exception` with rollback
ingest_try(r, raises_at) ==
    LET hotkey == SignedBy(r.headers) IN
    /\ Len(targon_stats_db.miner_response) < MaxIngest
    /\ ingest_request' =
          [endpoint |-> "ingest_try", signed_by |-> hotkey, headers |-> r.headers,
           err |-> NoError.value, looked_up |-> r.payload_ok,
           authorized |-> is_authorized_hotkey(targon_stats_db.validator, hotkey)]
    /\ IF ~r.payload_ok
       THEN /\ ingest_response' = IngestError("ValidationError")
            /\ UNCHANGED targon_stats_db
       ELSE IF ~is_authorized_hotkey(targon_stats_db.validator, hotkey)
       THEN /\ ingest_response' = IngestError("401: Unauthorized hotkey: " \o hotkey)
            /\ UNCHANGED targon_stats_db
       ELSE /\ ingest_response' = IF raises_at = 0 THEN IngestOk
                                  ELSE IngestError("INSERT")
            /\ targon_stats_db' = IngestInserts(targon_stats_db, hotkey, raises_at)
    /\ UNCHANGED <<svc_vars, verify_vars, intake_vars, exgestor_vars>>

\* The requests to the two endpoints that write to targon_stats_db, and the
\* requests that get into the try block of ingest
NextStore ==
    \/ \E r \in IngestRequests, raises_at \in 0..3 : ingest(r, raises_at)
    \/ \E r \in IngestRequests, raises_at \in 0..1 : ingest_organics(r, raises_at)
    \/ \E r \in VerifiedRequests, raises_at \in 0..3 : ingest_try(r, raises_at)

SpecStore == Init /\ [][NextStore]_vars

\* The rows of hotkey in the three tables
RowsOf(db, hotkey) ==
    [miner_response |-> Len(SelectSeq(db.miner_response, LAMBDA h : h = hotkey)),
     validator_request |-> Len(SelectSeq(db.validator_request, LAMBDA h : h = hotkey))]

-----------------------------------------------------------------------------
(* The connection of exgestor *)

\* C31: in exgestor a materialization can be repeated.  The connection that
\* get_cached_records uses stays usable after a materialization, successful or
\* failed; a request that finds the cache empty, with the store answering, is
\* answered 200 with a new bucket, cached for the whole TTL, and not with an
\* error.
C31_MaterializationRepeats ==
    /\ [](connection = "open")
    /\ [][ExgestorFetches /\ exgestor_response'.detail \notin StoreErrors =>
             /\ exgestor_response'.status = 200
             /\ exgestor_response'.bucket_id = current_bucket'.id
             /\ exgestor_cache'.bucket_id = current_bucket'.id
             /\ exgestor_cache'.remaining = EXGESTOR_TTL]_vars

\* A materialization has succeeded and has moved the watermark; its lease has
\* run out; the request that came then has started a second materialization,
\* on the closed connection, and was answered with an error that is none of
\* the handler's own
C31_Witness ==
    /\ current_bucket.id = 2 /\ current_bucket.last_id > 0
    /\ exgestor_cache = NoCurrentBucket
    /\ connection = "closed"
    /\ exgestor_response = ExgestorError(500, "Internal Server Error")

====
